---- MODULE Spec2Model ----
(***************************************************************************)
(* A model of the generator examples of src/generators/generators.py:      *)
(* the three-stage pipeline square(filter_even(read_numbers(data))), the   *)
(* accumulator coroutine, count_up_to, fibonacci_generator, flatten, Range *)
(* and process_csv_lazily; of the decorators retry, memoize, singleton and *)
(* validate_types of src/decorators/decorators.py; and of the context      *)
(* managers FileManager, change_directory, temporary_attribute,            *)
(* SuppressExceptions and TransactionManager of                            *)
(* src/context_managers/context_managers.py.                               *)
(*                                                                         *)
(* A generator object is a record holding its frame: "state" is "created"  *)
(* (body not yet entered), "suspended" (paused at a yield) or "finished"   *)
(* (body returned); the other fields are the frame's locals.  A call of    *)
(* next() is an operator from a generator object to a record               *)
(*   [g |-> the object afterwards, kind |-> "value" | "stop", val |-> v]   *)
(* where "stop" is StopIteration.                                          *)
(***************************************************************************)
EXTENDS Integers, Sequences, FiniteSets, TLC

VARIABLES
    data,      \* the list handed to read_numbers
    pipes,     \* pipes[i]: the i-th pipeline object (outermost generator)
    out,       \* out[i]: the values the consumer of pipes[i] has received
    last,      \* last[i]: "none", or how the latest pull on pipes[i] ended
    how,       \* how[i]: "new", "next", "list" or "mixed": how pipes[i] was consumed
    abandoned, \* the pipelines the consumer has dropped, and how far each had come
    acc,       \* the accumulator generator object
    accLast,   \* the latest call on acc and how it ended
    primed,    \* history: next(acc) has been called
    sent,      \* history: the values sent to acc after the first next(acc)
    rejected,  \* history: the number of sends made before the first next(acc)
    produced,  \* history: the number of next(acc) calls since the latest send
    fibs,      \* fibs[1], fibs[2]: fibonacci_generator(); fibs[3]: square of another
    fibOut,    \* fibOut[i]: the values pulled from fibs[i]
    fibLast,   \* fibLast[i]: "none", or how the latest pull on fibs[i] ended
    nested,    \* the list handed to flatten
    flat,      \* the flatten generator object
    flatOut,   \* the values pulled from flat
    flatLast,  \* "none", or how the latest pull on flat ended
    lines,     \* the list of lines whose iterator is handed to process_csv_lazily
    csv,       \* the process_csv_lazily generator object (NoCsv: none exists)
    csvOut,    \* the mappings pulled from csv
    csvLast,   \* "none", or how the latest pull on csv ended
    disk,      \* the file read_large_file_lines is given the name of
    reader,    \* the read_large_file_lines generator object, its file included
    readOut,   \* the lines pulled from reader
    readLast,  \* "none", or how the latest call on reader ended
    rng,       \* the Range object under iteration
    rngOut,    \* the values pulled from rng
    rngLast,   \* "none", or how the latest pull on rng ended
    rngStops,  \* the number of times rng has raised StopIteration
    maxAttempts,\* max_attempts of the retry decorator
    script,    \* what the wrapped function does at each of its invocations
    retried,   \* "none" before the call of the wrapper, then how it ended
    cache,     \* memoize's cache for fibonacci: argument tuple (n,) -> result
    bodyRuns,  \* history: bodyRuns[n], how often the body of fibonacci ran for n
    memoCalls, \* history: the calls of fibonacci made from outside and their results
    instances, \* singleton's dict: class -> its instance (a reference into heap)
    heap,      \* the DatabaseConnection objects constructed so far, in order
    dbCalls,   \* history: the calls DatabaseConnection(...) and what each returned
    expectedTypes,\* expected_types of the validate_types decorator, in the order given
    callArgs,  \* the arguments of the latest call of add_numbers
    validated, \* "none" before a call of the wrapper, then how the latest one ended
    txn,       \* the TransactionManager of the with statement
    txBlock,   \* the with statement: where it is, what its block did, what left it
    sup,       \* the SuppressExceptions of the with statement
    supBlock,  \* the with statement: where it is, how its block ended, what left it
    fm,        \* the FileManager of the with statements
    handles,   \* the file objects open() has made, in the order made
    onDisk,    \* whether the file that fm.filename names exists
    fmBlock,   \* the with statement: where it is, how its block ended, what left it
    cwd,       \* the process's working directory
    cdStack,   \* the change_directory with statements under way, the innermost last
    cdLast,    \* the with statement that has just ended, if the last step ended one
    obj,       \* the object whose attribute is set: its class attribute and its own
    taStack,   \* the temporary_attribute with statements under way, the innermost last
    taLast,    \* the with statement that has just ended, if the last step ended one
    counter,   \* the count_up_to generator of demonstrate_basic_generator
    cntOut,    \* the values next(counter) has given, in order
    cntPulls,  \* the number of next(counter) calls made
    cntRest,   \* the values the for loop over counter has given, in order
    cntLooped  \* whether the for loop over counter has run

pipeVars == <<data, pipes, out, last, how, abandoned>>

accVars == <<acc, accLast, primed, sent, rejected, produced>>

fibVars == <<fibs, fibOut, fibLast>>

flatVars == <<nested, flat, flatOut, flatLast>>

csvVars == <<lines, csv, csvOut, csvLast>>

fileVars == <<disk, reader, readOut, readLast>>

rangeVars == <<rng, rngOut, rngLast, rngStops>>

retryVars == <<maxAttempts, script, retried>>

memoVars == <<cache, bodyRuns, memoCalls>>

singletonVars == <<instances, heap, dbCalls>>

validateVars == <<expectedTypes, callArgs, validated>>

txnVars == <<txn, txBlock>>

supVars == <<sup, supBlock>>

fmVars == <<fm, handles, onDisk, fmBlock>>

cdVars == <<cwd, cdStack, cdLast>>

taVars == <<obj, taStack, taLast>>

cntVars == <<counter, cntOut, cntPulls, cntRest, cntLooped>>

\* what an action on one example leaves alone: the other examples' objects
exceptPipe == <<accVars, fibVars, flatVars, csvVars, fileVars, rangeVars,
                retryVars, memoVars, singletonVars, validateVars, txnVars,
                supVars, fmVars, cdVars, taVars, cntVars>>

exceptAcc == <<pipeVars, fibVars, flatVars, csvVars, fileVars, rangeVars,
               retryVars, memoVars, singletonVars, validateVars, txnVars,
               supVars, fmVars, cdVars, taVars, cntVars>>

exceptFib == <<pipeVars, accVars, flatVars, csvVars, fileVars, rangeVars,
               retryVars, memoVars, singletonVars, validateVars, txnVars,
               supVars, fmVars, cdVars, taVars, cntVars>>

exceptFlat == <<pipeVars, accVars, fibVars, csvVars, fileVars, rangeVars,
                retryVars, memoVars, singletonVars, validateVars, txnVars,
                supVars, fmVars, cdVars, taVars, cntVars>>

exceptCsv == <<pipeVars, accVars, fibVars, flatVars, fileVars, rangeVars,
               retryVars, memoVars, singletonVars, validateVars, txnVars,
               supVars, fmVars, cdVars, taVars, cntVars>>

exceptFile == <<pipeVars, accVars, fibVars, flatVars, csvVars, rangeVars,
                retryVars, memoVars, singletonVars, validateVars, txnVars,
                supVars, fmVars, cdVars, taVars, cntVars>>

exceptRange == <<pipeVars, accVars, fibVars, flatVars, csvVars, fileVars,
                 retryVars, memoVars, singletonVars, validateVars, txnVars,
                 supVars, fmVars, cdVars, taVars, cntVars>>

exceptRetry == <<pipeVars, accVars, fibVars, flatVars, csvVars, fileVars,
                 rangeVars, memoVars, singletonVars, validateVars, txnVars,
                 supVars, fmVars, cdVars, taVars, cntVars>>

exceptMemo == <<pipeVars, accVars, fibVars, flatVars, csvVars, fileVars,
                rangeVars, retryVars, singletonVars, validateVars, txnVars,
                supVars, fmVars, cdVars, taVars, cntVars>>

exceptSingleton == <<pipeVars, accVars, fibVars, flatVars, csvVars, fileVars,
                     rangeVars, retryVars, memoVars, validateVars, txnVars,
                     supVars, fmVars, cdVars, taVars, cntVars>>

exceptValidate == <<pipeVars, accVars, fibVars, flatVars, csvVars, fileVars,
                    rangeVars, retryVars, memoVars, singletonVars, txnVars,
                    supVars, fmVars, cdVars, taVars, cntVars>>

exceptTxn == <<pipeVars, accVars, fibVars, flatVars, csvVars, fileVars,
               rangeVars, retryVars, memoVars, singletonVars, validateVars,
               supVars, fmVars, cdVars, taVars, cntVars>>

exceptSup == <<pipeVars, accVars, fibVars, flatVars, csvVars, fileVars,
               rangeVars, retryVars, memoVars, singletonVars, validateVars,
               txnVars, fmVars, cdVars, taVars, cntVars>>

exceptFm == <<pipeVars, accVars, fibVars, flatVars, csvVars, fileVars,
              rangeVars, retryVars, memoVars, singletonVars, validateVars,
              txnVars, supVars, cdVars, taVars, cntVars>>

exceptCd == <<pipeVars, accVars, fibVars, flatVars, csvVars, fileVars,
              rangeVars, retryVars, memoVars, singletonVars, validateVars,
              txnVars, supVars, fmVars, taVars, cntVars>>

exceptTa == <<pipeVars, accVars, fibVars, flatVars, csvVars, fileVars,
              rangeVars, retryVars, memoVars, singletonVars, validateVars,
              txnVars, supVars, fmVars, cdVars, cntVars>>

exceptCnt == <<pipeVars, accVars, fibVars, flatVars, csvVars, fileVars,
               rangeVars, retryVars, memoVars, singletonVars, validateVars,
               txnVars, supVars, fmVars, cdVars, taVars>>

vars == <<data, pipes, out, last, how, abandoned, acc, accLast, primed, sent,
          rejected, produced, fibs, fibOut, fibLast, nested, flat, flatOut, flatLast,
          lines, csv, csvOut, csvLast, disk, reader, readOut, readLast, rng,
          rngOut, rngLast, rngStops, maxAttempts, script, retried, cache, bodyRuns,
          memoCalls, instances, heap, dbCalls, expectedTypes, callArgs,
          validated, txn, txBlock, sup, supBlock, fm, handles, onDisk,
          fmBlock, cwd, cdStack, cdLast, obj, taStack, taLast, counter,
          cntOut, cntPulls, cntRest, cntLooped>>

----------------------------------------------------------------------------
(* Bounds of the model *)

MaxLen == 3
ValBound == 2

Vals == (0 - ValBound)..ValBound

BoundedSeqs(S, n) == UNION {[1..k -> S] : k \in 0..n}

Inst == {1, 2}

\* data of demonstrate_pipeline
DemoData == <<1, 2, 3, 4, 5, 6, 7, 8, 9, 10>>

----------------------------------------------------------------------------
(* The generator protocol *)

Stop(g) == [g |-> g, kind |-> "stop", val |-> 0]

Yield(g, v) == [g |-> g, kind |-> "value", val |-> v]

\* read_numbers(data): calling a generator function runs none of its body
ReadNumbers == [kind |-> "read_numbers", state |-> "created", pos |-> 0]

\* filter_even(numbers)
FilterEven(numbers) == [kind |-> "filter_even", state |-> "created", up |-> numbers]

\* square(numbers)
Square(numbers) == [kind |-> "square", state |-> "created", up |-> numbers]

\* pipeline = square(filter_even(read_numbers(data)))
NewPipeline == Square(FilterEven(ReadNumbers))

\* A read_numbers whose index is shared by every instance (a module-level
\* counter instead of the frame's own iterator).
ReadNumbersNextShared(g) ==
    LET seen == {g.pos} \cup {pipes[k].up.up.pos : k \in DOMAIN pipes}
        shared == CHOOSE p \in seen : \A q \in seen : q <= p
    IN  IF g.state = "finished" THEN Stop(g)
        ELSE IF shared < Len(data)
             THEN Yield([g EXCEPT !.state = "suspended", !.pos = shared + 1],
                        data[shared + 1])
             ELSE Stop([g EXCEPT !.state = "finished", !.pos = shared])

\* A read_numbers that walks one iterator over data shared by its instances
\* (a module-level iter(data)): a new instance goes on where the abandoned
\* one stopped.
ReadNumbersNextResumes(g) ==
    LET from == IF g.state = "created" /\ abandoned # <<>>
                THEN abandoned[Len(abandoned)].pipe.up.up.pos
                ELSE g.pos
    IN  IF g.state = "finished" THEN Stop(g)
        ELSE IF from < Len(data)
             THEN Yield([g EXCEPT !.state = "suspended", !.pos = from + 1],
                        data[from + 1])
             ELSE Stop([g EXCEPT !.state = "finished", !.pos = from])

\* for number in data: yield number
ReadNumbersNext(g) ==
    IF g.state = "finished" THEN Stop(g)
    ELSE IF g.pos < Len(data)
         THEN Yield([g EXCEPT !.state = "suspended", !.pos = g.pos + 1],
                    data[g.pos + 1])
         ELSE Stop([g EXCEPT !.state = "finished"])

\* count_up_to(max_value): count does not exist before the body is entered
CountUpTo(max_value) ==
    [kind |-> "count_up_to", state |-> "created", max_value |-> max_value,
     count |-> 0]

\* A count_up_to that adds 2 to count when resumed (count += 2).
CountUpToNextSkips(g) ==
    LET count == IF g.state = "created" THEN 1 ELSE g.count + 2 IN
    IF g.state = "finished" THEN Stop(g)
    ELSE IF count <= g.max_value
         THEN Yield([g EXCEPT !.state = "suspended", !.count = count], count)
         ELSE Stop([g EXCEPT !.state = "finished", !.count = count])

\* count = 1; while count <= max_value: yield count; count += 1
CountUpToNext(g) ==
    LET count == IF g.state = "created" THEN 1 ELSE g.count + 1 IN
    IF g.state = "finished" THEN Stop(g)
    ELSE IF count <= g.max_value
         THEN Yield([g EXCEPT !.state = "suspended", !.count = count], count)
         ELSE Stop([g EXCEPT !.state = "finished", !.count = count])

\* fibonacci_generator(): a and b do not exist before the body is entered
Fibonacci == [kind |-> "fibonacci", state |-> "created"]

\* A fibonacci_generator whose a and b are module-level names shared by every
\* instance: each resumption of any instance advances the one pair.
FibonacciNextShared(g) ==
    LET frames == {f \in {g, fibs[1], fibs[2], fibs[3].up} : f.state = "suspended"}
        top == IF frames = {} THEN [a |-> 0, b |-> 1]
               ELSE CHOOSE f \in frames : \A h \in frames : h.a + h.b <= f.a + f.b
    IN  IF g.state = "created"
        THEN Yield([kind |-> "fibonacci", state |-> "suspended",
                    a |-> top.a, b |-> top.b], top.a)
        ELSE Yield([g EXCEPT !.a = top.b, !.b = top.a + top.b], top.b)

\* A fibonacci_generator that gives up (while a < 2) instead of while True.
FibonacciNextBounded(g) ==
    IF g.state = "finished" THEN Stop(g)
    ELSE IF g.state = "created"
         THEN Yield([kind |-> "fibonacci", state |-> "suspended", a |-> 0, b |-> 1], 0)
         ELSE IF g.b < 2
              THEN Yield([g EXCEPT !.a = g.b, !.b = g.a + g.b], g.b)
              ELSE Stop([g EXCEPT !.state = "finished"])

\* a, b = 0, 1; while True: yield a; a, b = b, a + b
\* The loop has no exit: the body never returns. Python integers do not overflow.
FibonacciNext(g) ==
    IF g.state = "finished" THEN Stop(g)
    ELSE IF g.state = "created"
         THEN Yield([kind |-> "fibonacci", state |-> "suspended", a |-> 0, b |-> 1], 0)
         ELSE Yield([g EXCEPT !.a = g.b, !.b = g.a + g.b], g.b)

\* An element of a nested list is a leaf, [list |-> FALSE, val |-> v], or a list,
\* [list |-> TRUE, items |-> <<...>>]: the field list is isinstance(item, list).
Leaf(v) == [list |-> FALSE, val |-> v]

Nest(items) == [list |-> TRUE, items |-> items]

\* flatten(nested_list).  stack is the chain of flatten generators that
\* yield from links, outermost first; each holds its list and how far its for
\* loop has come in it.
Flatten(nested_list) ==
    [kind |-> "flatten", state |-> "created",
     stack |-> <<[items |-> nested_list, idx |-> 0]>>]

\* A flatten that does not recurse into the lists it finds inside a sub-list
\* (one level of flattening only): they are skipped.
RECURSIVE FlattenLoopShallow(_)
FlattenLoopShallow(g) ==
    LET n == Len(g.stack)
        top == g.stack[n]
        item == top.items[top.idx + 1]
        advanced == [g.stack EXCEPT ![n].idx = top.idx + 1]
    IN  IF top.idx < Len(top.items)
        THEN IF item.list
             THEN IF n >= 2
                  THEN FlattenLoopShallow([g EXCEPT !.stack = advanced])
                  ELSE FlattenLoopShallow([g EXCEPT !.stack =
                           Append(advanced, [items |-> item.items, idx |-> 0])])
             ELSE Yield([g EXCEPT !.state = "suspended", !.stack = advanced], item.val)
        ELSE IF n = 1
             THEN Stop([g EXCEPT !.state = "finished"])
             ELSE FlattenLoopShallow([g EXCEPT !.stack = SubSeq(g.stack, 1, n - 1)])

\* for item in nested_list:
\*     if isinstance(item, list): yield from flatten(item)
\*     else: yield item
\* run from the innermost generator up to the next yield; a generator whose
\* loop is over returns, which resumes the one that delegated to it.
RECURSIVE FlattenLoop(_)
FlattenLoop(g) ==
    LET n == Len(g.stack)
        top == g.stack[n]
        item == top.items[top.idx + 1]
        advanced == [g.stack EXCEPT ![n].idx = top.idx + 1]
    IN  IF top.idx < Len(top.items)
        THEN IF item.list
             THEN FlattenLoop([g EXCEPT !.stack =
                      Append(advanced, [items |-> item.items, idx |-> 0])])
             ELSE Yield([g EXCEPT !.state = "suspended", !.stack = advanced], item.val)
        ELSE IF n = 1
             THEN Stop([g EXCEPT !.state = "finished"])
             ELSE FlattenLoop([g EXCEPT !.stack = SubSeq(g.stack, 1, n - 1)])

FlattenNext(g) ==
    IF g.state = "finished" THEN Stop(g) ELSE FlattenLoop(g)

\* Range(n): stop is None, so start = 0 and stop = n; step = 1
Range1(n) ==
    [kind |-> "Range", start |-> 0, stop |-> n, step |-> 1, current |-> 0]

\* Range(start, stop, step)
Range3(start, stop, step) ==
    [kind |-> "Range", start |-> start, stop |-> stop, step |-> step,
     current |-> start]

\* Range.__iter__
RangeIter(r) == r

\* A Range that rewinds when it is exhausted (self.current = self.start before
\* raise StopIteration), so that it can be iterated again.
RangeNextRewinds(r) ==
    IF (r.step > 0 /\ r.current >= r.stop) \/ (r.step < 0 /\ r.current <= r.stop)
    THEN Stop([r EXCEPT !.current = r.start])
    ELSE Yield([r EXCEPT !.current = r.current + r.step], r.current)

\* Range.__next__
RangeNext(r) ==
    IF (r.step > 0 /\ r.current >= r.stop) \/ (r.step < 0 /\ r.current <= r.stop)
    THEN Stop(r)
    ELSE Yield([r EXCEPT !.current = r.current + r.step], r.current)

\* iter(csv_data): an iterator over the list lines; once it has raised
\* StopIteration it stays exhausted
ListIterator == [kind |-> "list_iterator", pos |-> 0, exhausted |-> FALSE]

ListIteratorNext(it) ==
    IF it.exhausted THEN Stop(it)
    ELSE IF it.pos < Len(lines)
         THEN Yield([it EXCEPT !.pos = it.pos + 1], lines[it.pos + 1])
         ELSE Stop([it EXCEPT !.exhausted = TRUE])

\* line.split(','): a line is a sequence of one-character strings, a field
\* the characters between two commas; there is always at least one field
RECURSIVE SplitComma(_)
SplitComma(line) ==
    IF line = <<>> THEN << <<>> >>
    ELSE LET rest == SplitComma(Tail(line)) IN
         IF Head(line) = ","
         THEN << <<>> >> \o rest
         ELSE << <<Head(line)>> \o Head(rest) >> \o Tail(rest)

\* dict(zip(header, values)): the pairs up to the shorter of the two, a later
\* pair replacing an earlier one with the same key
ZipDict(header, values) ==
    LET n == IF Len(header) <= Len(values) THEN Len(header) ELSE Len(values)
        at(k) == CHOOSE i \in 1..n :
                     header[i] = k /\ \A j \in 1..n : header[j] = k => j <= i
    IN  [k \in {header[i] : i \in 1..n} |-> values[at(k)]]

\* process_csv_lazily(lines)
ProcessCsv(it) == [kind |-> "process_csv_lazily", state |-> "created", lines |-> it]

RECURSIVE IterNext(_)
RECURSIVE FilterEvenLoop(_)
RECURSIVE FilterEvenNext(_)
RECURSIVE SquareNext(_)

RECURSIVE ListLoop(_, _)
ListLoop(it, items) ==
    LET r == IterNext(it) IN
    IF r.kind = "stop" THEN [g |-> r.g, items |-> items]
    ELSE ListLoop(r.g, Append(items, r.val))

\* results = list(pipeline)
List(it) == ListLoop(it, <<>>)

\* A filter_even that materialises its input on entry (for num in list(numbers)):
\* the same values, read ahead of demand.
RECURSIVE FilterEvenBuffered(_)
FilterEvenBuffered(g) ==
    LET drained == List(g.up)
        buf == IF g.state = "created" THEN drained.items ELSE g.buf
        up == IF g.state = "created" THEN drained.g ELSE g.up
    IN  IF buf = <<>>
        THEN Stop([kind |-> "filter_even", state |-> "finished", up |-> up, buf |-> buf])
        ELSE IF Head(buf) % 2 = 0
             THEN Yield([kind |-> "filter_even", state |-> "suspended", up |-> up,
                         buf |-> Tail(buf)], Head(buf))
             ELSE FilterEvenBuffered([kind |-> "filter_even", state |-> "suspended",
                                      up |-> up, buf |-> Tail(buf)])

\* for num in numbers: if num % 2 == 0: yield num
\* A filter_even that returns at the first odd number (else: return) instead
\* of going on to the next one.
FilterEvenLoopStopsAtOdd(g) ==
    LET r == IterNext(g.up) IN
    IF r.kind = "stop" \/ r.val % 2 # 0
    THEN Stop([g EXCEPT !.state = "finished", !.up = r.g])
    ELSE Yield([g EXCEPT !.state = "suspended", !.up = r.g], r.val)

\* for num in numbers: if num % 2 == 0: yield num
FilterEvenLoop(g) ==
    LET r == IterNext(g.up) IN
    IF r.kind = "stop"
    THEN Stop([g EXCEPT !.state = "finished", !.up = r.g])
    ELSE IF r.val % 2 = 0
         THEN Yield([g EXCEPT !.state = "suspended", !.up = r.g], r.val)
         ELSE FilterEvenLoop([g EXCEPT !.up = r.g])

FilterEvenNext(g) ==
    IF g.state = "finished" THEN Stop(g) ELSE FilterEvenLoop(g)

\* A square that marks the end of its input with a last 0 instead of just
\* returning when its input is exhausted.
SquareNextFlushes(g) ==
    IF g.state = "finished" THEN Stop(g)
    ELSE IF g.state = "flushed" THEN Stop([g EXCEPT !.state = "finished"])
    ELSE LET r == IterNext(g.up) IN
         IF r.kind = "stop"
         THEN Yield([g EXCEPT !.state = "flushed", !.up = r.g], 0)
         ELSE Yield([g EXCEPT !.state = "suspended", !.up = r.g], r.val * r.val)

\* A square that doubles (num * 2) instead of squaring.
SquareNextDoubles(g) ==
    IF g.state = "finished" THEN Stop(g)
    ELSE LET r == IterNext(g.up) IN
         IF r.kind = "stop"
         THEN Stop([g EXCEPT !.state = "finished", !.up = r.g])
         ELSE Yield([g EXCEPT !.state = "suspended", !.up = r.g], r.val * 2)

\* for num in numbers: yield num ** 2
SquareNext(g) ==
    IF g.state = "finished" THEN Stop(g)
    ELSE LET r == IterNext(g.up) IN
         IF r.kind = "stop"
         THEN Stop([g EXCEPT !.state = "finished", !.up = r.g])
         ELSE Yield([g EXCEPT !.state = "suspended", !.up = r.g], r.val * r.val)

\* A process_csv_lazily that zips strictly (zip(header, values, strict=True)):
\* ValueError for a line whose field count is not the header's.
ProcessCsvLoopStrict(g) ==
    LET r == IterNext(g.lines) IN
    IF r.kind = "stop"
    THEN Stop([g EXCEPT !.state = "finished", !.lines = r.g])
    ELSE IF Len(SplitComma(r.val)) # Len(g.header)
         THEN [g |-> [g EXCEPT !.state = "finished", !.lines = r.g],
               kind |-> "ValueError", val |-> 0]
         ELSE Yield([g EXCEPT !.state = "suspended", !.lines = r.g],
                    ZipDict(g.header, SplitComma(r.val)))

\* for line in lines: values = line.split(','); yield dict(zip(header, values))
ProcessCsvLoop(g) ==
    LET r == IterNext(g.lines) IN
    IF r.kind = "stop"
    THEN Stop([g EXCEPT !.state = "finished", !.lines = r.g])
    ELSE Yield([g EXCEPT !.state = "suspended", !.lines = r.g],
               ZipDict(g.header, SplitComma(r.val)))

\* A process_csv_lazily that reads the header without consuming it (the
\* first line is also the first data line).
ProcessCsvNextKeepsHeader(g) ==
    IF g.state = "finished" THEN Stop(g)
    ELSE IF g.state = "created"
         THEN LET r == IterNext(g.lines) IN
              IF r.kind = "stop"
              THEN Stop([g EXCEPT !.state = "finished", !.lines = r.g])
              ELSE Yield([kind |-> "process_csv_lazily", state |-> "suspended",
                          lines |-> r.g, header |-> SplitComma(r.val)],
                         ZipDict(SplitComma(r.val), SplitComma(r.val)))
         ELSE ProcessCsvLoop(g)

\* A process_csv_lazily that reads the header outside any try: the
\* StopIteration of next(lines) on an empty input, raised in a generator's
\* body, leaves next() as RuntimeError.
ProcessCsvNextUnguarded(g) ==
    IF g.state = "finished" THEN Stop(g)
    ELSE IF g.state = "created"
         THEN LET r == IterNext(g.lines) IN
              IF r.kind = "stop"
              THEN [g |-> [g EXCEPT !.state = "finished", !.lines = r.g],
                    kind |-> "RuntimeError", val |-> 0]
              ELSE ProcessCsvLoop([kind |-> "process_csv_lazily", state |-> "created",
                                   lines |-> r.g, header |-> SplitComma(r.val)])
         ELSE ProcessCsvLoop(g)

\* try: header = next(lines).split(',')
\* except StopIteration: return
\* and then the loop
ProcessCsvNext(g) ==
    IF g.state = "finished" THEN Stop(g)
    ELSE IF g.state = "created"
         THEN LET r == IterNext(g.lines) IN
              IF r.kind = "stop"
              THEN Stop([g EXCEPT !.state = "finished", !.lines = r.g])
              ELSE ProcessCsvLoop([kind |-> "process_csv_lazily", state |-> "created",
                                   lines |-> r.g, header |-> SplitComma(r.val)])
         ELSE ProcessCsvLoop(g)

\* next(it) on any of the iterators above
IterNext(it) ==
    CASE it.kind = "read_numbers" -> ReadNumbersNext(it)
      [] it.kind = "filter_even" -> FilterEvenNext(it)
      [] it.kind = "square" -> SquareNext(it)
      [] it.kind = "fibonacci" -> FibonacciNext(it)
      [] it.kind = "count_up_to" -> CountUpToNext(it)
      [] it.kind = "flatten" -> FlattenNext(it)
      [] it.kind = "Range" -> RangeNext(it)
      [] it.kind = "list_iterator" -> ListIteratorNext(it)
      [] it.kind = "process_csv_lazily" -> ProcessCsvNext(it)

\* [x ** 2 for x in numbers if x % 2 == 0]
SquaredEvens(numbers) ==
    LET evens == SelectSeq(numbers, LAMBDA x : x % 2 = 0)
    IN  [k \in 1..Len(evens) |-> evens[k] * evens[k]]

\* the read_numbers object at the bottom of a pipeline
Source(p) == p.up.up

----------------------------------------------------------------------------
(* The pipeline and its consumers *)

\* the pipelines ps (a function from their names) built while data is d
PipeStartOn(d, ps) ==
    /\ data = d
    /\ pipes = ps
    /\ out = [i \in DOMAIN ps |-> <<>>]
    /\ last = [i \in DOMAIN ps |-> "none"]
    /\ how = [i \in DOMAIN ps |-> "new"]
    /\ abandoned = <<>>

PipeStart(d) == PipeStartOn(d, [i \in Inst |-> NewPipeline])

\* next(pipeline)
Pull(i) ==
    LET r == IterNext(pipes[i]) IN
    /\ pipes' = [pipes EXCEPT ![i] = r.g]
    /\ out' = [out EXCEPT ![i] = IF r.kind = "value" THEN Append(@, r.val) ELSE @]
    /\ last' = [last EXCEPT ![i] = r.kind]
    /\ how' = [how EXCEPT ![i] = IF @ \in {"new", "next"} THEN "next" ELSE "mixed"]
    /\ UNCHANGED <<data, abandoned, exceptPipe>>

\* list(pipeline)
Drain(i) ==
    LET r == List(pipes[i]) IN
    /\ pipes' = [pipes EXCEPT ![i] = r.g]
    /\ out' = [out EXCEPT ![i] = @ \o r.items]
    /\ last' = [last EXCEPT ![i] = "stop"]
    /\ how' = [how EXCEPT ![i] = IF @ = "new" THEN "list" ELSE "mixed"]
    /\ UNCHANGED <<data, abandoned, exceptPipe>>

MaxAbandoned == 2

\* the consumer stops pulling pipes[i], drops it, and builds a new pipeline
\* over the same data: pipeline = square(filter_even(read_numbers(data)))
Abandon(i) ==
    /\ Len(abandoned) < MaxAbandoned
    /\ abandoned' = Append(abandoned, [pipe |-> pipes[i], got |-> out[i],
                                       last |-> last[i]])
    /\ pipes' = [pipes EXCEPT ![i] = NewPipeline]
    /\ out' = [out EXCEPT ![i] = <<>>]
    /\ last' = [last EXCEPT ![i] = "none"]
    /\ how' = [how EXCEPT ![i] = "new"]
    /\ UNCHANGED <<data, exceptPipe>>

----------------------------------------------------------------------------
(* The accumulator coroutine.  total is the float 0.0 plus the values sent;  *)
(* the model sends integers, whose float sums are exact.                    *)

MaxSends == 3
SendBound == 2
MaxProduces == 2

SendVals == (0 - SendBound)..SendBound

\* the values demonstrate_send sends
DemoSends == {10, 20, 5}

\* acc = accumulator(): no local exists before the body is entered
Accumulator == [kind |-> "accumulator", state |-> "created"]

Raise(g, exc) == [g |-> g, kind |-> exc, val |-> 0]

\* An accumulator that overwrites its total (total = value).
AccumulatorSendOverwrites(g, value) ==
    IF g.state = "created"
    THEN Raise(g, "TypeError")
    ELSE Yield([g EXCEPT !.total = value], value)

\* An accumulator that a first send starts and feeds at once.
AccumulatorSendStarts(g, value) ==
    IF g.state = "created"
    THEN Yield([kind |-> "accumulator", state |-> "suspended", total |-> value], value)
    ELSE Yield([g EXCEPT !.total = g.total + value], g.total + value)

\* acc.send(value), value not None.  A generator that has not reached its first
\* yield has no yield expression to receive the value: send raises TypeError
\* and leaves the generator as it was.  Otherwise: value = yield total resumes,
\* total += value, and the loop comes back to yield total.
AccumulatorSend(g, value) ==
    IF g.state = "created"
    THEN Raise(g, "TypeError")
    ELSE Yield([g EXCEPT !.total = g.total + value], g.total + value)

\* An accumulator that adds whatever it receives (total += value without the
\* test for None): a next() on the started generator fails with TypeError.
AccumulatorNextAddsNone(g) ==
    IF g.state = "created"
    THEN Yield([kind |-> "accumulator", state |-> "suspended", total |-> 0], 0)
    ELSE Raise([g EXCEPT !.state = "finished"], "TypeError")

\* next(acc), which is acc.send(None): the first one runs total = 0.0 up to the
\* yield; a later one resumes with value None, adds nothing and yields total.
AccumulatorNext(g) ==
    IF g.state = "created"
    THEN Yield([kind |-> "accumulator", state |-> "suspended", total |-> 0], 0)
    ELSE Yield(g, g.total)

AccStart ==
    /\ acc = Accumulator
    /\ accLast = [op |-> "none", kind |-> "none", val |-> 0]
    /\ primed = FALSE
    /\ sent = <<>>
    /\ rejected = 0
    /\ produced = 0

\* next(acc)
AccProduce ==
    LET r == AccumulatorNext(acc) IN
    /\ produced < MaxProduces
    /\ acc' = r.g
    /\ accLast' = [op |-> "next", kind |-> r.kind, val |-> r.val]
    /\ primed' = TRUE
    /\ produced' = produced + 1
    /\ UNCHANGED <<sent, rejected, exceptAcc>>

\* acc.send(v)
AccAccept(v) ==
    LET r == AccumulatorSend(acc, v) IN
    /\ Len(sent) + rejected < MaxSends
    /\ acc' = r.g
    /\ accLast' = [op |-> "send", kind |-> r.kind, val |-> r.val]
    /\ sent' = IF primed THEN Append(sent, v) ELSE sent
    /\ rejected' = IF primed THEN rejected ELSE rejected + 1
    /\ produced' = IF r.kind = "value" THEN 0 ELSE produced
    /\ UNCHANGED <<primed, exceptAcc>>

----------------------------------------------------------------------------
(* fibonacci_generator and its consumers *)

MaxFibPulls == 5

FibInst == {1, 2, 3}

FibStart ==
    /\ fibs = [i \in FibInst |-> IF i = 3 THEN Square(Fibonacci) ELSE Fibonacci]
    /\ fibOut = [i \in FibInst |-> <<>>]
    /\ fibLast = [i \in FibInst |-> "none"]

\* next(fib)
FibPull(i) ==
    LET r == IterNext(fibs[i]) IN
    /\ Len(fibOut[i]) < MaxFibPulls
    /\ fibs' = [fibs EXCEPT ![i] = r.g]
    /\ fibOut' = [fibOut EXCEPT ![i] = IF r.kind = "value" THEN Append(@, r.val) ELSE @]
    /\ fibLast' = [fibLast EXCEPT ![i] = r.kind]
    /\ UNCHANGED exceptFib

----------------------------------------------------------------------------
(* flatten and its consumers *)

MaxNodes == 6

LeafVals == {1, 2}

\* the lists with n nodes in all, the list itself and every list and leaf
\* inside it counted
RECURSIVE ListsOfSize(_)
RECURSIVE ItemsOfSize(_)
ListsOfSize(n) ==
    IF n = 1 THEN {<<>>}
    ELSE UNION {{<<first>> \o rest : first \in ItemsOfSize(k),
                                     rest \in ListsOfSize(n - k)} : k \in 1..(n - 1)}

ItemsOfSize(k) ==
    (IF k = 1 THEN {Leaf(v) : v \in LeafVals} ELSE {})
        \cup {Nest(l) : l \in ListsOfSize(k)}

NestedLists == UNION {ListsOfSize(n) : n \in 1..MaxNodes}

\* nested = [1, [2, 3, [4, 5]], 6, [7, [8, 9]]] of demonstrate_yield_from
DemoNested ==
    <<Leaf(1), Nest(<<Leaf(2), Leaf(3), Nest(<<Leaf(4), Leaf(5)>>)>>), Leaf(6),
      Nest(<<Leaf(7), Nest(<<Leaf(8), Leaf(9)>>)>>)>>

FlatStart(l) ==
    /\ nested = l
    /\ flat = Flatten(l)
    /\ flatOut = <<>>
    /\ flatLast = "none"

\* next(flat)
FlatPull ==
    LET r == IterNext(flat) IN
    /\ flat' = r.g
    /\ flatOut' = IF r.kind = "value" THEN Append(flatOut, r.val) ELSE flatOut
    /\ flatLast' = r.kind
    /\ UNCHANGED <<nested, exceptFlat>>

\* list(flat)
FlatDrain ==
    LET r == List(flat) IN
    /\ flat' = r.g
    /\ flatOut' = flatOut \o r.items
    /\ flatLast' = "stop"
    /\ UNCHANGED <<nested, exceptFlat>>

----------------------------------------------------------------------------
(* process_csv_lazily and its consumer *)

MaxLineLen == 3
MaxCsvLines == 2

Chars == {"a", ","}

CsvInputs == BoundedSeqs(BoundedSeqs(Chars, MaxLineLen), MaxCsvLines)

\* csv_data of demonstrate_file_processing
DemoCsv ==
    <<<<"n", "a", "m", "e", ",", "a", "g", "e", ",", "c", "i", "t", "y">>,
      <<"A", "l", "i", "c", "e", ",", "3", "0", ",", "N", "e", "w", " ",
       "Y", "o", "r", "k">>,
      <<"B", "o", "b", ",", "2", "5", ",", "L", "o", "s", " ", "A", "n",
       "g", "e", "l", "e", "s">>,
      <<"C", "h", "a", "r", "l", "i", "e", ",", "3", "5", ",", "C", "h",
       "i", "c", "a", "g", "o">>>>

NoCsv == [kind |-> "none"]

CsvStart(ls) ==
    /\ lines = ls
    /\ csv = ProcessCsv(ListIterator)
    /\ csvOut = <<>>
    /\ csvLast = "none"

CsvIdle ==
    /\ lines = <<>>
    /\ csv = NoCsv
    /\ csvOut = <<>>
    /\ csvLast = "none"

\* next(records)
CsvPull ==
    LET r == IterNext(csv) IN
    /\ csv # NoCsv
    /\ csv' = r.g
    /\ csvOut' = IF r.kind = "value" THEN Append(csvOut, r.val) ELSE csvOut
    /\ csvLast' = r.kind
    /\ UNCHANGED <<lines, exceptCsv>>

----------------------------------------------------------------------------
(* read_large_file_lines and its consumer.  A text is a sequence of          *)
(* one-character strings; disk is the file the name given to the generator   *)
(* stands for: whether it can be opened, its text, and the line at which a   *)
(* read fails (0: none does).                                                *)

MaxFileLen == 4

FileChars == {"a", " ", "\n"}

Whitespace == {" ", "\n"}

Disks ==
    {[exists |-> FALSE, text |-> <<>>, failAt |-> 0]}
        \cup {[exists |-> TRUE, text |-> t, failAt |-> f] :
                  t \in BoundedSeqs(FileChars, MaxFileLen), f \in 0..2}

\* for line in file: the lines of the text, each up to and including its
\* newline, the last one up to the end of the text
RECURSIVE FileLines(_)
FileLines(text) ==
    IF text = <<>> THEN <<>>
    ELSE LET ends == {i \in 1..Len(text) : text[i] = "\n"} \cup {Len(text)}
             k == CHOOSE i \in ends : \A j \in ends : i <= j
         IN  <<SubSeq(text, 1, k)>> \o FileLines(SubSeq(text, k + 1, Len(text)))

\* line.strip(): without its leading and trailing whitespace
RECURSIVE Strip(_)
Strip(line) ==
    IF line = <<>> THEN <<>>
    ELSE IF Head(line) \in Whitespace THEN Strip(Tail(line))
    ELSE IF line[Len(line)] \in Whitespace THEN Strip(SubSeq(line, 1, Len(line) - 1))
    ELSE line

\* read_large_file_lines(filename): calling it opens nothing.  file is the
\* frame's file object: "unopened" while the body has not run open().
ReadLargeFileLines ==
    [kind |-> "read_large_file_lines", state |-> "created", file |-> "unopened",
     pos |-> 0]

\* with open(filename, 'r') as file: for line in file: yield line.strip()
\* open() may raise before the with block is entered; leaving the with block,
\* by the end of the loop or by an exception of the read, closes the file.
ReadLargeFileLinesNext(g) ==
    IF g.state = "finished" THEN Stop(g)
    ELSE IF g.state = "created" /\ ~disk.exists
    THEN Raise([g EXCEPT !.state = "finished"], "FileNotFoundError")
    ELSE IF disk.failAt = g.pos + 1
    THEN Raise([g EXCEPT !.state = "finished", !.file = "closed"], "OSError")
    ELSE IF g.pos < Len(FileLines(disk.text))
    THEN Yield([g EXCEPT !.state = "suspended", !.file = "open", !.pos = g.pos + 1],
               Strip(FileLines(disk.text)[g.pos + 1]))
    ELSE Stop([g EXCEPT !.state = "finished", !.file = "closed"])

\* A read_large_file_lines without the with block (file = open(filename),
\* the loop, file.close() after it): closing the generator at its yield
\* never reaches file.close().
ReadLargeFileLinesCloseLeaks(g) ==
    [g |-> [g EXCEPT !.state = "finished"], kind |-> "closed", val |-> 0]

\* generator.close(): a generator suspended at its yield gets GeneratorExit
\* there, which leaves the with block (the file is closed) and ends the body;
\* one that has not started never runs its body.
ReadLargeFileLinesClose(g) ==
    [g |-> IF g.state = "suspended"
           THEN [g EXCEPT !.state = "finished", !.file = "closed"]
           ELSE [g EXCEPT !.state = "finished"],
     kind |-> "closed", val |-> 0]

\* generator.throw(exc): the exception is raised at the yield the generator is
\* suspended at, leaves the with block (the file is closed) and comes out of
\* throw(); a generator that has not started, or has finished, runs nothing.
ReadLargeFileLinesThrow(g, exc) ==
    Raise(IF g.state = "suspended"
          THEN [g EXCEPT !.state = "finished", !.file = "closed"]
          ELSE [g EXCEPT !.state = "finished"], exc)

FileStart(d) ==
    /\ disk = d
    /\ reader = ReadLargeFileLines
    /\ readOut = <<>>
    /\ readLast = "none"

FileIdle == FileStart([exists |-> FALSE, text |-> <<>>, failAt |-> 0])

ReaderResult(r) ==
    /\ reader' = r.g
    /\ readOut' = IF r.kind = "value" THEN Append(readOut, r.val) ELSE readOut
    /\ readLast' = r.kind
    /\ UNCHANGED <<disk, exceptFile>>

\* next(reader)
ReadPull == ReaderResult(ReadLargeFileLinesNext(reader))

\* reader.close(): the consumer stops early
ReadClose == ReaderResult(ReadLargeFileLinesClose(reader))

\* reader.throw(ValueError)
ReadThrow == ReaderResult(ReadLargeFileLinesThrow(reader, "ValueError"))

----------------------------------------------------------------------------
(* The stages over each kind of finite source: read_numbers, Range, and the  *)
(* list iterator under process_csv_lazily                                    *)

RangeBound == 3

\* step 0 never exhausts a Range; the sources here are the finite ones
RangeSteps == {-2, -1, 1, 2}

\* Range(5), Range(2, 8), Range(10, 0, -2) of demonstrate_custom_iterator
DemoRanges == {Range1(5), Range3(2, 8, 1), Range3(10, 0, -2)}

FiniteRanges ==
    {Range1(n) : n \in 0..RangeBound}
        \cup {Range3(a, b, st) : a \in 0..RangeBound, b \in 0..RangeBound,
                                  st \in RangeSteps}
        \cup DemoRanges

NoPipes == [i \in {} |-> NewPipeline]

InitExhaust ==
    /\ \/ /\ \E d \in BoundedSeqs(Vals, MaxLen) \cup {DemoData} :
                 PipeStartOn(d, [i \in {1} |-> NewPipeline])
          /\ CsvIdle
       \/ /\ \E r \in FiniteRanges :
                 PipeStartOn(<<>>, [i \in {2} |-> Square(FilterEven(r))])
          /\ CsvIdle
       \/ /\ PipeStartOn(<<>>, NoPipes)
          /\ \E ls \in CsvInputs : CsvStart(ls)

----------------------------------------------------------------------------
(* Range under a consumer that pulls its values one by one *)

MaxRangePulls == 7
MaxRangeStops == 2

\* Range(n) and Range(start, stop, step) for integers of either sign; __init__
\* accepts every step, 0 included
AllRanges ==
    {Range1(n) : n \in (0 - RangeBound)..RangeBound}
        \cup {Range3(a, b, st) : a \in (0 - RangeBound)..RangeBound,
                                  b \in (0 - RangeBound)..RangeBound,
                                  st \in RangeSteps \cup {0}}
        \cup DemoRanges

RangeStart(r) ==
    /\ rng = r
    /\ rngOut = <<>>
    /\ rngLast = "none"
    /\ rngStops = 0

RangeIdle == RangeStart(Range1(0))

\* next(rng)
RangePull ==
    LET r == IterNext(rng) IN
    /\ Len(rngOut) < MaxRangePulls
    /\ rngStops < MaxRangeStops
    /\ rng' = r.g
    /\ rngOut' = IF r.kind = "value" THEN Append(rngOut, r.val) ELSE rngOut
    /\ rngLast' = r.kind
    /\ rngStops' = IF r.kind = "stop" THEN rngStops + 1 ELSE rngStops
    /\ UNCHANGED exceptRange

\* list(rng), or a for loop over rng run to its end: iter(rng), then next()
\* until StopIteration.  With step 0 there is no end to run to.
RangeList ==
    LET r == List(RangeIter(rng)) IN
    /\ rng.step # 0
    /\ rngStops < MaxRangeStops
    /\ rng' = r.g
    /\ rngOut' = rngOut \o r.items
    /\ rngLast' = "stop"
    /\ rngStops' = rngStops + 1
    /\ UNCHANGED exceptRange

----------------------------------------------------------------------------
(* retry.  The wrapped function is the environment: script[k] is what its    *)
(* k-th invocation does, return a value or raise an exception (one that      *)
(* derives from Exception, as the ValueError of unstable_operation).         *)

MaxAttempts == 4

ReturnVals == {"Success!", "Done"}

Exceptions == {"ValueError", "OSError"}

Outcomes ==
    {[kind |-> "return", val |-> v] : v \in ReturnVals}
        \cup {[kind |-> "raise", val |-> x] : x \in Exceptions}

\* A retry whose loop is range(1, max_attempts): one attempt short.
RECURSIVE RetryLoopShort(_, _, _, _, _)
RetryLoopShort(attempt, max_attempts, sc, last_exception, slept) ==
    IF attempt > max_attempts - 1
    THEN [kind |-> "raise",
          val |-> IF last_exception = "None" THEN "TypeError" ELSE last_exception,
          invoked |-> attempt - 1, slept |-> slept]
    ELSE IF sc[attempt].kind = "return"
    THEN [kind |-> "return", val |-> sc[attempt].val,
          invoked |-> attempt, slept |-> slept]
    ELSE RetryLoopShort(attempt + 1, max_attempts, sc, sc[attempt].val,
                        IF attempt < max_attempts THEN slept + 1 ELSE slept)

\* A retry that keeps the first exception (if last_exception is None:
\* last_exception = e) and raises that one.
RECURSIVE RetryLoopKeepsFirst(_, _, _, _, _)
RetryLoopKeepsFirst(attempt, max_attempts, sc, last_exception, slept) ==
    IF attempt > max_attempts
    THEN [kind |-> "raise",
          val |-> IF last_exception = "None" THEN "TypeError" ELSE last_exception,
          invoked |-> attempt - 1, slept |-> slept]
    ELSE IF sc[attempt].kind = "return"
    THEN [kind |-> "return", val |-> sc[attempt].val,
          invoked |-> attempt, slept |-> slept]
    ELSE RetryLoopKeepsFirst(attempt + 1, max_attempts, sc,
                             IF last_exception = "None" THEN sc[attempt].val
                             ELSE last_exception,
                             IF attempt < max_attempts THEN slept + 1 ELSE slept)

\* for attempt in range(1, max_attempts + 1):
\*     try: return func(*args, **kwargs)
\*     except Exception as e:
\*         last_exception = e
\*         if attempt < max_attempts: time.sleep(delay)
\* raise last_exception
\* invoked counts the invocations of func made, slept the calls of time.sleep.
RECURSIVE RetryLoop(_, _, _, _, _)
RetryLoop(attempt, max_attempts, sc, last_exception, slept) ==
    IF attempt > max_attempts
    THEN [kind |-> "raise",
          val |-> IF last_exception = "None" THEN "TypeError" ELSE last_exception,
          invoked |-> attempt - 1, slept |-> slept]
    ELSE IF sc[attempt].kind = "return"
    THEN [kind |-> "return", val |-> sc[attempt].val,
          invoked |-> attempt, slept |-> slept]
    ELSE RetryLoop(attempt + 1, max_attempts, sc, sc[attempt].val,
                   IF attempt < max_attempts THEN slept + 1 ELSE slept)

\* wrapper(*args, **kwargs) of retry: last_exception = None, then the loop
RetryWrapper(max_attempts, sc) == RetryLoop(1, max_attempts, sc, "None", 0)

\* @retry(max_attempts=n, delay=...)
RetryStart(n) ==
    /\ maxAttempts = n
    /\ script = <<>>
    /\ retried = [kind |-> "none"]

\* @retry(max_attempts=3, delay=0.5) of unstable_operation
RetryIdle == RetryStart(3)

\* result = unstable_operation(...): one call of the wrapper
RetryCall ==
    \E sc \in [1..maxAttempts -> Outcomes] :
        /\ script' = sc
        /\ retried' = RetryWrapper(maxAttempts, sc)
        /\ UNCHANGED <<maxAttempts, exceptRetry>>

----------------------------------------------------------------------------
(* memoize and the memoized fibonacci.  The name fibonacci is bound to the   *)
(* wrapper, so the recursive calls of the body go through the cache too.     *)
(* A call carries st = [cache, runs] through and returns it with its value.  *)

MaxFibArg == 6
MaxMemoCalls == 3

FibArgs == 0..MaxFibArg

RECURSIVE MemoWrapper(_, _)
RECURSIVE FibonacciBody(_, _)

\* A memoize that keeps one result whatever the arguments (cache[func], not
\* cache[args]).
MemoWrapperOneSlot(n, st) ==
    IF DOMAIN st.cache # {}
    THEN [cache |-> st.cache, runs |-> st.runs,
          val |-> st.cache[CHOOSE k \in DOMAIN st.cache : TRUE]]
    ELSE LET r == FibonacciBody(n, st) IN
         [cache |-> IF DOMAIN r.cache # {} THEN r.cache
                    ELSE [k \in {n} |-> r.val],
          runs |-> r.runs,
          val |-> IF DOMAIN r.cache # {}
                  THEN r.cache[CHOOSE k \in DOMAIN r.cache : TRUE] ELSE r.val]

\* A memoize that stores every result and never looks one up.
MemoWrapperNoLookup(n, st) ==
    LET r == FibonacciBody(n, st) IN
    [cache |-> [k \in DOMAIN r.cache \cup {n} |-> IF k = n THEN r.val ELSE r.cache[k]],
     runs |-> r.runs, val |-> r.val]

\* if args not in cache: cache[args] = func(*args)
\* return cache[args]
MemoWrapper(n, st) ==
    IF n \in DOMAIN st.cache
    THEN [cache |-> st.cache, runs |-> st.runs, val |-> st.cache[n]]
    ELSE LET r == FibonacciBody(n, st)
             stored == [k \in DOMAIN r.cache \cup {n} |->
                            IF k = n THEN r.val ELSE r.cache[k]]
         IN  [cache |-> stored, runs |-> r.runs, val |-> stored[n]]

\* if n < 2: return n
\* return fibonacci(n - 1) + fibonacci(n - 2)
FibonacciBody(n, st) ==
    LET entered == [st EXCEPT !.runs[n] = @ + 1] IN
    IF n < 2
    THEN [cache |-> entered.cache, runs |-> entered.runs, val |-> n]
    ELSE LET a == MemoWrapper(n - 1, entered)
             b == MemoWrapper(n - 2, [cache |-> a.cache, runs |-> a.runs])
         IN  [cache |-> b.cache, runs |-> b.runs, val |-> a.val + b.val]

\* @memoize: cache = {}
MemoStart ==
    /\ cache = <<>>
    /\ bodyRuns = [k \in FibArgs |-> 0]
    /\ memoCalls = <<>>

\* fibonacci(n), called from outside
MemoCall(n) ==
    LET r == MemoWrapper(n, [cache |-> cache, runs |-> bodyRuns]) IN
    /\ Len(memoCalls) < MaxMemoCalls
    /\ cache' = r.cache
    /\ bodyRuns' = r.runs
    /\ memoCalls' = Append(memoCalls, [n |-> n, val |-> r.val,
                                        cached |-> n \in DOMAIN cache])
    /\ UNCHANGED exceptMemo

----------------------------------------------------------------------------
(* singleton and DatabaseConnection.  An object is its place in heap, so    *)
(* that two references are the same object exactly when they are equal.     *)

MaxDbCalls == 3

Hosts == {"localhost", "otherhost"}

Ports == {5432, 3306}

\* the positional arguments __init__(self, host="localhost", port=5432) takes
DbArgs ==
    {<<>>} \cup {<<h>> : h \in Hosts} \cup {<<h, p>> : h \in Hosts, p \in Ports}

\* DatabaseConnection.__init__
DatabaseConnectionInit(args) ==
    [host |-> IF Len(args) >= 1 THEN args[1] ELSE "localhost",
     port |-> IF Len(args) >= 2 THEN args[2] ELSE 5432,
     connected |-> FALSE]

\* A singleton that keeps one instance per argument tuple
\* (instances[(cls, args)]).
GetInstancePerArgs(args, st) ==
    IF args \in DOMAIN st.instances
    THEN [instances |-> st.instances, heap |-> st.heap, ref |-> st.instances[args]]
    ELSE [instances |-> [k \in DOMAIN st.instances \cup {args} |->
                             IF k = args THEN Len(st.heap) + 1
                             ELSE st.instances[k]],
          heap |-> Append(st.heap, DatabaseConnectionInit(args)),
          ref |-> Len(st.heap) + 1]

\* if cls not in instances: instances[cls] = cls(*args, **kwargs)
\* return instances[cls]
GetInstance(args, st) ==
    IF "DatabaseConnection" \in DOMAIN st.instances
    THEN [instances |-> st.instances, heap |-> st.heap,
          ref |-> st.instances["DatabaseConnection"]]
    ELSE [instances |-> [k \in {"DatabaseConnection"} |-> Len(st.heap) + 1],
          heap |-> Append(st.heap, DatabaseConnectionInit(args)),
          ref |-> Len(st.heap) + 1]

\* @singleton: instances = {}
SingletonStart ==
    /\ instances = <<>>
    /\ heap = <<>>
    /\ dbCalls = <<>>

\* db = DatabaseConnection(*args)
DbCall(args) ==
    LET r == GetInstance(args, [instances |-> instances, heap |-> heap]) IN
    /\ Len(dbCalls) < MaxDbCalls
    /\ instances' = r.instances
    /\ heap' = r.heap
    /\ dbCalls' = Append(dbCalls, [args |-> args, ref |-> r.ref])
    /\ UNCHANGED exceptSingleton

\* db.connect(), on the object a call has returned
DbConnect ==
    \E k \in 1..Len(dbCalls) :
        /\ heap' = [heap EXCEPT ![dbCalls[k].ref].connected = TRUE]
        /\ UNCHANGED <<instances, dbCalls, exceptSingleton>>

\* db.disconnect()
DbDisconnect ==
    \E k \in 1..Len(dbCalls) :
        /\ heap' = [heap EXCEPT ![dbCalls[k].ref].connected = FALSE]
        /\ UNCHANGED <<instances, dbCalls, exceptSingleton>>

----------------------------------------------------------------------------
(* validate_types and add_numbers.  A value is [type, n, s]: type the name   *)
(* of its class, n the number it stands for (True is 1), s the characters    *)
(* of a str.                                                                 *)

MaxExpected == 2

TypeNames == {"int", "str"}

ParamNames == {"x", "y", "z"}

IntValue(n) == [type |-> "int", n |-> n, s |-> <<>>]

StrValue(s) == [type |-> "str", n |-> 0, s |-> s]

NoValue == [type |-> "NoneType", n |-> 0, s |-> <<>>]

\* 5, 10, "5" of main, and True
ArgValues ==
    {IntValue(5), IntValue(10), StrValue(<<"5">>),
     [type |-> "bool", n |-> 1, s |-> <<>>]}

\* **expected_types: keyword arguments (distinct names) in the order given;
\* z is a name add_numbers has no parameter for
ExpectedTypes ==
    {et \in BoundedSeqs([name : ParamNames, type : TypeNames], MaxExpected) :
         \A i, j \in 1..Len(et) : et[i].name = et[j].name => i = j}

\* isinstance(value, expected_type); bool is a subclass of int
IsInstance(value, type) ==
    \/ value.type = type
    \/ value.type = "bool" /\ type = "int"

\* add_numbers(x, y): return x + y, which raises TypeError for an int and a str
AddNumbers(x, y) ==
    IF x.type \in {"int", "bool"} /\ y.type \in {"int", "bool"}
    THEN [kind |-> "return", by |-> "func", val |-> IntValue(x.n + y.n)]
    ELSE IF x.type = "str" /\ y.type = "str"
    THEN [kind |-> "return", by |-> "func", val |-> StrValue(x.s \o y.s)]
    ELSE [kind |-> "TypeError", by |-> "func", val |-> NoValue]

\* for param_name, expected_type in expected_types.items():
\*     if param_name in bound_args.arguments:
\*         if not isinstance(value, expected_type): raise TypeError(...)
\* the name the loop raises for, "none" if it runs to its end
RECURSIVE ValidateLoop(_, _, _)
ValidateLoop(expected_types, arguments, i) ==
    IF i > Len(expected_types) THEN "none"
    ELSE IF /\ expected_types[i].name \in DOMAIN arguments
            /\ ~IsInstance(arguments[expected_types[i].name], expected_types[i].type)
    THEN expected_types[i].name
    ELSE ValidateLoop(expected_types, arguments, i + 1)

\* A validate_types that calls the function first and validates afterwards.
ValidateWrapperCallsFirst(expected_types, args) ==
    LET arguments == [x |-> args[1], y |-> args[2]]
        result == AddNumbers(args[1], args[2])
        bad == ValidateLoop(expected_types, arguments, 1)
    IN  IF result.kind = "return" /\ bad # "none"
        THEN [kind |-> "TypeError", by |-> "wrapper", param |-> bad,
              val |-> NoValue, invoked |-> TRUE]
        ELSE [kind |-> result.kind, by |-> result.by, param |-> "none",
              val |-> result.val, invoked |-> TRUE]

\* wrapper(*args, **kwargs) of validate_types: sig.bind gives x and y their
\* arguments, the loop checks them, and only then return func(*args, **kwargs)
ValidateWrapper(expected_types, args) ==
    LET arguments == [x |-> args[1], y |-> args[2]]
        bad == ValidateLoop(expected_types, arguments, 1)
    IN  IF bad # "none"
        THEN [kind |-> "TypeError", by |-> "wrapper", param |-> bad,
              val |-> NoValue, invoked |-> FALSE]
        ELSE LET result == AddNumbers(args[1], args[2]) IN
             [kind |-> result.kind, by |-> result.by, param |-> "none",
              val |-> result.val, invoked |-> TRUE]

\* @validate_types(**et)
ValidateStart(et) ==
    /\ expectedTypes = et
    /\ callArgs = <<>>
    /\ validated = [kind |-> "none"]

\* @validate_types(x=int, y=int) of add_numbers
ValidateIdle ==
    ValidateStart(<<[name |-> "x", type |-> "int"], [name |-> "y", type |-> "int"]>>)

\* result = add_numbers(a, b)
ValidateCall(a, b) ==
    /\ callArgs' = <<a, b>>
    /\ validated' = ValidateWrapper(expectedTypes, <<a, b>>)
    /\ UNCHANGED <<expectedTypes, exceptValidate>>

----------------------------------------------------------------------------
(* The with statement.  A block ends normally ("None") or by raising an      *)
(* exception, named by its class; __exit__ is then called with that class   *)
(* and gives [mgr |-> the manager afterwards, suppress |-> whether the      *)
(* value it returns is true].                                               *)

\* the built-in exception classes the blocks raise, each with its base class
Bases ==
    [BaseException |-> "object",
     KeyboardInterrupt |-> "BaseException",
     Exception |-> "BaseException",
     ValueError |-> "Exception",
     UnicodeError |-> "ValueError",
     TypeError |-> "Exception",
     RuntimeError |-> "Exception",
     OSError |-> "Exception",
     FileNotFoundError |-> "OSError",
     FileExistsError |-> "OSError",
     LookupError |-> "Exception",
     KeyError |-> "LookupError"]

ExcTypes == DOMAIN Bases

\* how a block ends
BlockEnds == {"None"} \cup ExcTypes

\* what leaves a with statement whose block ended by exc and whose __exit__
\* returned a true value (suppress) or a false one
Propagated(exc, suppress) == IF exc # "None" /\ ~suppress THEN exc ELSE "None"

----------------------------------------------------------------------------
(* TransactionManager *)

MaxChanges == 4

Changes == {"Updated username", "Updated email"}

TransactionManager(transaction_name) ==
    [name |-> transaction_name, changes |-> <<>>]

TransactionEnter(self) == self

AddChange(self, change) == [self EXCEPT !.changes = Append(@, change)]

TransactionExitKeeps(self, exc_type) == [mgr |-> self, suppress |-> FALSE]

TransactionExit(self, exc_type) ==
    IF exc_type = "None"
        THEN [mgr |-> self, suppress |-> FALSE]
        ELSE [mgr |-> [self EXCEPT !.changes = <<>>], suppress |-> FALSE]

TxnIdle ==
    /\ txn = TransactionManager("user_update")
    /\ txBlock = [at |-> "before", added |-> <<>>, exc |-> "None",
                  propagated |-> "None"]

\* with TransactionManager("user_update") as txn:
TxnEnter ==
    /\ txBlock.at # "inside"
    /\ txn' = TransactionEnter(TransactionManager("user_update"))
    /\ txBlock' = [at |-> "inside", added |-> <<>>, exc |-> "None",
                   propagated |-> "None"]
    /\ UNCHANGED exceptTxn

\* txn.add_change(change), in the block
TxnAddChange(change) ==
    /\ txBlock.at = "inside"
    /\ Len(txBlock.added) < MaxChanges
    /\ txn' = AddChange(txn, change)
    /\ txBlock' = [txBlock EXCEPT !.added = Append(@, change)]
    /\ UNCHANGED exceptTxn

\* the block ends, normally or by an exception, and __exit__ runs
TxnLeave(exc) ==
    LET r == TransactionExit(txn, exc) IN
    /\ txBlock.at = "inside"
    /\ txn' = r.mgr
    /\ txBlock' = [txBlock EXCEPT !.at = "after", !.exc = exc,
                                  !.propagated = Propagated(exc, r.suppress)]
    /\ UNCHANGED exceptTxn

----------------------------------------------------------------------------
(* SuppressExceptions *)

MaxSuppressed == 2

\* cls and its base classes, up to BaseException
RECURSIVE Mro(_)
Mro(cls) == IF cls = "object" THEN {} ELSE {cls} \cup Mro(Bases[cls])

\* issubclass(cls, classinfo), classinfo a tuple of classes
IsSubclass(cls, classinfo) ==
    \E i \in DOMAIN classinfo : classinfo[i] \in Mro(cls)

SuppressExceptions(exceptions) == [exceptions |-> exceptions]

SuppressEnter(self) == self

SuppressExitExact(self, exc_type) ==
    [mgr |-> self,
     suppress |-> \E i \in DOMAIN self.exceptions : self.exceptions[i] = exc_type]

SuppressExit(self, exc_type) ==
    IF exc_type # "None" /\ IsSubclass(exc_type, self.exceptions)
        THEN [mgr |-> self, suppress |-> TRUE]
        ELSE [mgr |-> self, suppress |-> FALSE]

\* SuppressExceptions(*exceptions), before its with block
SupStart(exceptions) ==
    /\ sup = SuppressExceptions(exceptions)
    /\ supBlock = [at |-> "before", exc |-> "None", propagated |-> "None"]

SupIdle == SupStart(<<"ValueError", "TypeError">>)

\* with sup:
SupEnter ==
    /\ supBlock.at # "inside"
    /\ sup' = SuppressEnter(sup)
    /\ supBlock' = [at |-> "inside", exc |-> "None", propagated |-> "None"]
    /\ UNCHANGED exceptSup

\* the block ends, normally or by an exception, and __exit__ runs
SupLeave(exc) ==
    LET r == SuppressExit(sup, exc) IN
    /\ supBlock.at = "inside"
    /\ sup' = r.mgr
    /\ supBlock' = [at |-> "after", exc |-> exc,
                    propagated |-> Propagated(exc, r.suppress)]
    /\ UNCHANGED exceptSup

----------------------------------------------------------------------------
(* FileManager.  A file object is its place in handles; None is 0. *)

MaxOpens == 3

FileModes == {"r", "w", "a", "x"}

\* open(filename, mode): a new file object, or the OSError the mode and the
\* state of the file give
Open(hs, exists, filename, mode) ==
    IF mode = "r" /\ ~exists
        THEN [kind |-> "FileNotFoundError", handles |-> hs, file |-> 0,
              exists |-> exists]
    ELSE IF mode = "x" /\ exists
        THEN [kind |-> "FileExistsError", handles |-> hs, file |-> 0,
              exists |-> exists]
    ELSE [kind |-> "value",
          handles |-> Append(hs, [name |-> filename, mode |-> mode,
                                  closed |-> FALSE]),
          file |-> Len(hs) + 1, exists |-> TRUE]

\* file.close()
Close(hs, file) == [hs EXCEPT ![file].closed = TRUE]

FileManager(filename, mode) == [filename |-> filename, mode |-> mode, file |-> 0]

\* __enter__: the file object it returns, or the exception open() raised
FileManagerEnter(self, hs, exists) ==
    LET o == Open(hs, exists, self.filename, self.mode) IN
    IF o.kind = "value"
        THEN [kind |-> "value", mgr |-> [self EXCEPT !.file = o.file],
              handles |-> o.handles, exists |-> o.exists]
        ELSE [kind |-> o.kind, mgr |-> self, handles |-> hs, exists |-> exists]

FileManagerExitOnSuccess(self, hs, exc_type) ==
    [mgr |-> self,
     handles |-> IF self.file # 0 /\ exc_type = "None" THEN Close(hs, self.file)
                 ELSE hs,
     suppress |-> FALSE]

FileManagerExit(self, hs, exc_type) ==
    [mgr |-> self,
     handles |-> IF self.file # 0 THEN Close(hs, self.file) ELSE hs,
     suppress |-> FALSE]

\* FileManager(temp_file, mode), before its with block
FmStart(mode, exists) ==
    /\ fm = FileManager("context_manager_demo.txt", mode)
    /\ handles = <<>>
    /\ onDisk = exists
    /\ fmBlock = [at |-> "before", closed |-> FALSE, exc |-> "None",
                  propagated |-> "None"]

FmIdle == FmStart("r", FALSE)

\* with fm as f: __enter__ runs; if open() raises, the block is not entered
\* and __exit__ is not called
FmEnter ==
    LET r == FileManagerEnter(fm, handles, onDisk) IN
    /\ fmBlock.at # "inside"
    /\ Len(handles) < MaxOpens
    /\ fm' = r.mgr
    /\ handles' = r.handles
    /\ onDisk' = r.exists
    /\ fmBlock' = IF r.kind = "value"
                      THEN [at |-> "inside", closed |-> FALSE, exc |-> "None",
                            propagated |-> "None"]
                      ELSE [at |-> "not entered", closed |-> FALSE,
                            exc |-> "None", propagated |-> r.kind]
    /\ UNCHANGED exceptFm

\* f.close() in the block
FmBlockClose ==
    /\ fmBlock.at = "inside"
    /\ ~fmBlock.closed
    /\ handles' = Close(handles, fm.file)
    /\ fmBlock' = [fmBlock EXCEPT !.closed = TRUE]
    /\ UNCHANGED <<fm, onDisk, exceptFm>>

\* the block ends, normally or by an exception, and __exit__ runs
FmLeave(exc) ==
    LET r == FileManagerExit(fm, handles, exc) IN
    /\ fmBlock.at = "inside"
    /\ fm' = r.mgr
    /\ handles' = r.handles
    /\ fmBlock' = [fmBlock EXCEPT !.at = "after", !.exc = exc,
                                  !.propagated = Propagated(exc, r.suppress)]
    /\ UNCHANGED <<onDisk, exceptFm>>

----------------------------------------------------------------------------
(* change_directory.  @contextmanager runs the generator to its yield on     *)
(* __enter__ and resumes it there on __exit__, throwing the block's          *)
(* exception in if there is one; the directories are named by absolute       *)
(* paths.                                                                    *)

MaxDepth == 2

\* the directories that exist
Dirs == {"/", "/tmp", "/home"}

\* the paths given to change_directory: a directory, or a path that names none
Paths == Dirs \cup {"/nonexistent"}

\* os.chdir(path) while the working directory is wd
Chdir(wd, path) ==
    IF path \in Dirs THEN [kind |-> "value", cwd |-> path]
    ELSE [kind |-> "FileNotFoundError", cwd |-> wd]

\* change_directory(path): the generator object, not yet started
ChangeDirectory(path) ==
    [state |-> "created", path |-> path, original_dir |-> ""]

\* __enter__: the body up to its yield; when os.chdir(path) raises, the
\* finally clause runs and the exception leaves __enter__
ChangeDirectoryEnter(g, wd) ==
    LET original_dir == wd
        c == Chdir(wd, g.path)
    IN  IF c.kind = "value"
            THEN [kind |-> "value", cwd |-> c.cwd,
                  g |-> [g EXCEPT !.state = "suspended",
                                  !.original_dir = original_dir]]
            ELSE [kind |-> c.kind, cwd |-> Chdir(c.cwd, original_dir).cwd,
                  g |-> [g EXCEPT !.state = "finished",
                                  !.original_dir = original_dir]]

ChangeDirectoryExitNoFinally(g, wd, exc_type) ==
    [g |-> [g EXCEPT !.state = "finished"],
     cwd |-> IF exc_type = "None" THEN Chdir(wd, g.original_dir).cwd ELSE wd,
     suppress |-> FALSE]

\* __exit__: the body from its yield on, which is the finally clause; the
\* exception thrown in leaves the generator again, so it is not suppressed
ChangeDirectoryExit(g, wd, exc_type) ==
    [g |-> [g EXCEPT !.state = "finished"],
     cwd |-> Chdir(wd, g.original_dir).cwd,
     suppress |-> FALSE]

NoExit == [kind |-> "none", path |-> "", entry |-> "", exc |-> "None",
           propagated |-> "None"]

CdStart(wd) ==
    /\ cwd = wd
    /\ cdStack = <<>>
    /\ cdLast = NoExit

CdIdle == CdStart("/")

\* with change_directory(path):
CdEnter(path) ==
    LET r == ChangeDirectoryEnter(ChangeDirectory(path), cwd) IN
    /\ Len(cdStack) < MaxDepth
    /\ cwd' = r.cwd
    /\ cdStack' = IF r.kind = "value"
                      THEN Append(cdStack, [gen |-> r.g, entry |-> cwd,
                                            moved |-> FALSE])
                      ELSE cdStack
    /\ cdLast' = IF r.kind = "value" THEN NoExit
                 ELSE [kind |-> "not entered", path |-> path, entry |-> cwd,
                       exc |-> "None", propagated |-> r.kind]
    /\ UNCHANGED exceptCd

\* os.chdir(d) in the innermost block
CdBlockChdir(d) ==
    /\ cdStack # <<>>
    /\ cwd' = Chdir(cwd, d).cwd
    /\ cdStack' = [cdStack EXCEPT ![Len(cdStack)].moved = TRUE]
    /\ cdLast' = NoExit
    /\ UNCHANGED exceptCd

\* the innermost block ends, normally or by an exception, and __exit__ runs
CdLeave(exc) ==
    LET top == cdStack[Len(cdStack)]
        r == ChangeDirectoryExit(top.gen, cwd, exc)
    IN  /\ cdStack # <<>>
        /\ cwd' = r.cwd
        /\ cdStack' = SubSeq(cdStack, 1, Len(cdStack) - 1)
        /\ cdLast' = [kind |-> "after", path |-> top.gen.path,
                      entry |-> top.entry, exc |-> exc,
                      propagated |-> Propagated(exc, r.suppress)]
        /\ UNCHANGED exceptCd

----------------------------------------------------------------------------
(* temporary_attribute on one attribute name of one object.  obj.cls is the  *)
(* attribute as the object's class defines it and obj.inst the one in the    *)
(* object's own dictionary, each a value or Absent; reading looks in the     *)
(* object first and then in its class, setattr and delattr work on the       *)
(* object's own.                                                             *)

MaxNest == 2

Absent == "<absent>"

AttrValues == {"False", "True"}

HasAttr(o) == o.inst # Absent \/ o.cls # Absent

\* getattr(o, attr, None), where the attribute is readable
GetAttr(o) == IF o.inst # Absent THEN o.inst ELSE o.cls

SetAttr(o, value) == [o EXCEPT !.inst = value]

\* delattr(o, attr): AttributeError when the object has none of its own
DelAttr(o) ==
    IF o.inst # Absent THEN [kind |-> "value", obj |-> [o EXCEPT !.inst = Absent]]
    ELSE [kind |-> "AttributeError", obj |-> o]

\* temporary_attribute(obj, attr, value): the generator object, not started
TemporaryAttribute(value) ==
    [state |-> "created", value |-> value, has_attr |-> FALSE,
     original_value |-> "None"]

\* __enter__: the body up to its yield
TemporaryAttributeEnter(g, o) ==
    LET has_attr == HasAttr(o)
        original_value == IF has_attr THEN GetAttr(o) ELSE "None"
    IN  [g |-> [g EXCEPT !.state = "suspended", !.has_attr = has_attr,
                         !.original_value = original_value],
         obj |-> SetAttr(o, g.value)]

TemporaryAttributeExitSetsBack(g, o, exc_type) ==
    [g |-> [g EXCEPT !.state = "finished"],
     obj |-> SetAttr(o, g.original_value),
     raised |-> exc_type]

\* __exit__: the body from its yield on, which is the finally clause; raised
\* is the exception that leaves the with statement: the block's own, or the
\* AttributeError of delattr in its place
TemporaryAttributeExit(g, o, exc_type) ==
    IF g.has_attr
        THEN [g |-> [g EXCEPT !.state = "finished"],
              obj |-> SetAttr(o, g.original_value),
              raised |-> exc_type]
        ELSE LET d == DelAttr(o) IN
             [g |-> [g EXCEPT !.state = "finished"],
              obj |-> d.obj,
              raised |-> IF d.kind = "value" THEN exc_type ELSE d.kind]

NoLeave == [kind |-> "none", before |-> Absent, exc |-> "None",
            propagated |-> "None"]

TaStart(c, i) ==
    /\ obj = [cls |-> c, inst |-> i]
    /\ taStack = <<>>
    /\ taLast = NoLeave

\* config = Config(), whose class has debug = False
TaIdle == TaStart("False", Absent)

\* with temporary_attribute(obj, attr, value):
TaEnter(value) ==
    LET r == TemporaryAttributeEnter(TemporaryAttribute(value), obj) IN
    /\ Len(taStack) < MaxNest
    /\ obj' = r.obj
    /\ taStack' = Append(taStack,
                         [gen |-> r.g,
                          before |-> IF HasAttr(obj) THEN GetAttr(obj) ELSE Absent,
                          touched |-> FALSE])
    /\ taLast' = NoLeave
    /\ UNCHANGED exceptTa

\* obj.attr = value in the innermost block
TaBlockSet(value) ==
    /\ taStack # <<>>
    /\ obj' = SetAttr(obj, value)
    /\ taStack' = [taStack EXCEPT ![Len(taStack)].touched = TRUE]
    /\ taLast' = NoLeave
    /\ UNCHANGED exceptTa

\* del obj.attr in the innermost block, where the object has one of its own
TaBlockDel ==
    /\ taStack # <<>>
    /\ DelAttr(obj).kind = "value"
    /\ obj' = DelAttr(obj).obj
    /\ taStack' = [taStack EXCEPT ![Len(taStack)].touched = TRUE]
    /\ taLast' = NoLeave
    /\ UNCHANGED exceptTa

\* the innermost block ends, normally or by an exception, and __exit__ runs
TaLeave(exc) ==
    LET top == taStack[Len(taStack)]
        r == TemporaryAttributeExit(top.gen, obj, exc)
    IN  /\ taStack # <<>>
        /\ obj' = r.obj
        /\ taStack' = SubSeq(taStack, 1, Len(taStack) - 1)
        /\ taLast' = [kind |-> "after", before |-> top.before, exc |-> exc,
                      propagated |-> r.raised]
        /\ UNCHANGED exceptTa

----------------------------------------------------------------------------
(* count_up_to and its consumers *)

MaxCount == 4
MaxCountPulls == 6

\* max_value of demonstrate_basic_generator
DemoCount == 5

CntStart(max_value) ==
    /\ counter = CountUpTo(max_value)
    /\ cntOut = <<>>
    /\ cntPulls = 0
    /\ cntRest = <<>>
    /\ cntLooped = FALSE

CntIdle == CntStart(0)

\* next(counter), before the for loop
CntPull ==
    LET r == IterNext(counter) IN
    /\ ~cntLooped
    /\ cntPulls < MaxCountPulls
    /\ counter' = r.g
    /\ cntOut' = IF r.kind = "value" THEN Append(cntOut, r.val) ELSE cntOut
    /\ cntPulls' = cntPulls + 1
    /\ UNCHANGED <<cntRest, cntLooped, exceptCnt>>

\* for num in counter: the remaining values
CntLoop ==
    LET r == List(counter) IN
    /\ ~cntLooped
    /\ counter' = r.g
    /\ cntRest' = r.items
    /\ cntLooped' = TRUE
    /\ UNCHANGED <<cntOut, cntPulls, exceptCnt>>

----------------------------------------------------------------------------
(* Specifications: one per example, the other examples' objects left idle *)

InitPipe ==
    /\ \E d \in BoundedSeqs(Vals, MaxLen) \cup {DemoData} : PipeStart(d)
    /\ AccStart
    /\ FibStart
    /\ FlatStart(<<>>)
    /\ CsvIdle
    /\ FileIdle
    /\ RangeIdle
    /\ RetryIdle
    /\ MemoStart
    /\ SingletonStart
    /\ ValidateIdle
    /\ TxnIdle
    /\ SupIdle
    /\ FmIdle
    /\ CdIdle
    /\ TaIdle
    /\ CntIdle

NextPipe == \E i \in Inst : Pull(i) \/ Drain(i)

SpecPipe == InitPipe /\ [][NextPipe]_vars

InitAcc ==
    /\ AccStart
    /\ PipeStart(<<>>)
    /\ FibStart
    /\ FlatStart(<<>>)
    /\ CsvIdle
    /\ FileIdle
    /\ RangeIdle
    /\ RetryIdle
    /\ MemoStart
    /\ SingletonStart
    /\ ValidateIdle
    /\ TxnIdle
    /\ SupIdle
    /\ FmIdle
    /\ CdIdle
    /\ TaIdle
    /\ CntIdle

NextAcc ==
    \/ AccProduce
    \/ \E v \in SendVals \cup DemoSends : AccAccept(v)

SpecAcc == InitAcc /\ [][NextAcc]_vars

InitFib ==
    /\ FibStart
    /\ PipeStart(<<>>)
    /\ AccStart
    /\ FlatStart(<<>>)
    /\ CsvIdle
    /\ FileIdle
    /\ RangeIdle
    /\ RetryIdle
    /\ MemoStart
    /\ SingletonStart
    /\ ValidateIdle
    /\ TxnIdle
    /\ SupIdle
    /\ FmIdle
    /\ CdIdle
    /\ TaIdle
    /\ CntIdle

NextFib == \E i \in FibInst : FibPull(i)

SpecFib == InitFib /\ [][NextFib]_vars

InitFlat ==
    /\ \E l \in NestedLists \cup {DemoNested} : FlatStart(l)
    /\ PipeStart(<<>>)
    /\ AccStart
    /\ FibStart
    /\ CsvIdle
    /\ FileIdle
    /\ RangeIdle
    /\ RetryIdle
    /\ MemoStart
    /\ SingletonStart
    /\ ValidateIdle
    /\ TxnIdle
    /\ SupIdle
    /\ FmIdle
    /\ CdIdle
    /\ TaIdle
    /\ CntIdle

NextFlat == FlatPull \/ FlatDrain

SpecFlat == InitFlat /\ [][NextFlat]_vars

InitExhaustion ==
    /\ InitExhaust
    /\ AccStart
    /\ FibStart
    /\ FlatStart(<<>>)
    /\ FileIdle
    /\ RangeIdle
    /\ RetryIdle
    /\ MemoStart
    /\ SingletonStart
    /\ ValidateIdle
    /\ TxnIdle
    /\ SupIdle
    /\ FmIdle
    /\ CdIdle
    /\ TaIdle
    /\ CntIdle

NextExhaustion ==
    \/ \E i \in DOMAIN pipes : Pull(i)
    \/ \E i \in DOMAIN pipes : Drain(i)
    \/ CsvPull

SpecExhaustion == InitExhaustion /\ [][NextExhaustion]_vars

InitFile ==
    /\ \E d \in Disks : FileStart(d)
    /\ PipeStart(<<>>)
    /\ AccStart
    /\ FibStart
    /\ FlatStart(<<>>)
    /\ CsvIdle
    /\ RangeIdle
    /\ RetryIdle
    /\ MemoStart
    /\ SingletonStart
    /\ ValidateIdle
    /\ TxnIdle
    /\ SupIdle
    /\ FmIdle
    /\ CdIdle
    /\ TaIdle
    /\ CntIdle

NextFile ==
    \/ ReadPull
    \/ ReadClose
    \/ ReadThrow

SpecFile == InitFile /\ [][NextFile]_vars

InitCsv ==
    /\ \E ls \in CsvInputs \cup {DemoCsv} : CsvStart(ls)
    /\ PipeStart(<<>>)
    /\ AccStart
    /\ FibStart
    /\ FlatStart(<<>>)
    /\ FileIdle
    /\ RangeIdle
    /\ RetryIdle
    /\ MemoStart
    /\ SingletonStart
    /\ ValidateIdle
    /\ TxnIdle
    /\ SupIdle
    /\ FmIdle
    /\ CdIdle
    /\ TaIdle
    /\ CntIdle

NextCsv == CsvPull

SpecCsv == InitCsv /\ [][NextCsv]_vars

InitAbandon ==
    /\ \E d \in BoundedSeqs(Vals, MaxLen) \cup {DemoData} :
           PipeStartOn(d, [i \in {1} |-> NewPipeline])
    /\ AccStart
    /\ FibStart
    /\ FlatStart(<<>>)
    /\ CsvIdle
    /\ FileIdle
    /\ RangeIdle
    /\ RetryIdle
    /\ MemoStart
    /\ SingletonStart
    /\ ValidateIdle
    /\ TxnIdle
    /\ SupIdle
    /\ FmIdle
    /\ CdIdle
    /\ TaIdle
    /\ CntIdle

NextAbandon ==
    \/ \E i \in DOMAIN pipes : Pull(i)
    \/ \E i \in DOMAIN pipes : Drain(i)
    \/ \E i \in DOMAIN pipes : Abandon(i)

SpecAbandon == InitAbandon /\ [][NextAbandon]_vars

InitRange ==
    /\ \E r \in AllRanges : RangeStart(r)
    /\ PipeStart(<<>>)
    /\ AccStart
    /\ FibStart
    /\ FlatStart(<<>>)
    /\ CsvIdle
    /\ FileIdle
    /\ RetryIdle
    /\ MemoStart
    /\ SingletonStart
    /\ ValidateIdle
    /\ TxnIdle
    /\ SupIdle
    /\ FmIdle
    /\ CdIdle
    /\ TaIdle
    /\ CntIdle

NextRange ==
    \/ RangePull
    \/ RangeList

SpecRange == InitRange /\ [][NextRange]_vars

InitRetry ==
    /\ \E n \in 1..MaxAttempts : RetryStart(n)
    /\ PipeStart(<<>>)
    /\ AccStart
    /\ FibStart
    /\ FlatStart(<<>>)
    /\ CsvIdle
    /\ FileIdle
    /\ RangeIdle
    /\ MemoStart
    /\ SingletonStart
    /\ ValidateIdle
    /\ TxnIdle
    /\ SupIdle
    /\ FmIdle
    /\ CdIdle
    /\ TaIdle
    /\ CntIdle

NextRetry == RetryCall

SpecRetry == InitRetry /\ [][NextRetry]_vars

InitMemo ==
    /\ MemoStart
    /\ PipeStart(<<>>)
    /\ AccStart
    /\ FibStart
    /\ FlatStart(<<>>)
    /\ CsvIdle
    /\ FileIdle
    /\ RangeIdle
    /\ RetryIdle
    /\ SingletonStart
    /\ ValidateIdle
    /\ TxnIdle
    /\ SupIdle
    /\ FmIdle
    /\ CdIdle
    /\ TaIdle
    /\ CntIdle

NextMemo == \E n \in FibArgs : MemoCall(n)

SpecMemo == InitMemo /\ [][NextMemo]_vars

InitSingleton ==
    /\ SingletonStart
    /\ PipeStart(<<>>)
    /\ AccStart
    /\ FibStart
    /\ FlatStart(<<>>)
    /\ CsvIdle
    /\ FileIdle
    /\ RangeIdle
    /\ RetryIdle
    /\ MemoStart
    /\ ValidateIdle
    /\ TxnIdle
    /\ SupIdle
    /\ FmIdle
    /\ CdIdle
    /\ TaIdle
    /\ CntIdle

NextSingleton ==
    \/ \E args \in DbArgs : DbCall(args)
    \/ DbConnect
    \/ DbDisconnect

SpecSingleton == InitSingleton /\ [][NextSingleton]_vars

InitValidate ==
    /\ \E et \in ExpectedTypes : ValidateStart(et)
    /\ PipeStart(<<>>)
    /\ AccStart
    /\ FibStart
    /\ FlatStart(<<>>)
    /\ CsvIdle
    /\ FileIdle
    /\ RangeIdle
    /\ RetryIdle
    /\ MemoStart
    /\ SingletonStart
    /\ TxnIdle
    /\ SupIdle
    /\ FmIdle
    /\ CdIdle
    /\ TaIdle
    /\ CntIdle

NextValidate == \E a, b \in ArgValues : ValidateCall(a, b)

SpecValidate == InitValidate /\ [][NextValidate]_vars

InitTxn ==
    /\ TxnIdle
    /\ PipeStart(<<>>)
    /\ AccStart
    /\ FibStart
    /\ FlatStart(<<>>)
    /\ CsvIdle
    /\ FileIdle
    /\ RangeIdle
    /\ RetryIdle
    /\ MemoStart
    /\ SingletonStart
    /\ ValidateIdle
    /\ SupIdle
    /\ FmIdle
    /\ CdIdle
    /\ TaIdle
    /\ CntIdle

NextTxn ==
    \/ TxnEnter
    \/ \E change \in Changes : TxnAddChange(change)
    \/ \E exc \in BlockEnds : TxnLeave(exc)

SpecTxn == InitTxn /\ [][NextTxn]_vars

InitSup ==
    /\ \E exceptions \in BoundedSeqs(ExcTypes, MaxSuppressed) : SupStart(exceptions)
    /\ PipeStart(<<>>)
    /\ AccStart
    /\ FibStart
    /\ FlatStart(<<>>)
    /\ CsvIdle
    /\ FileIdle
    /\ RangeIdle
    /\ RetryIdle
    /\ MemoStart
    /\ SingletonStart
    /\ ValidateIdle
    /\ TxnIdle
    /\ FmIdle
    /\ CdIdle
    /\ TaIdle
    /\ CntIdle

NextSup ==
    \/ SupEnter
    \/ \E exc \in BlockEnds : SupLeave(exc)

SpecSup == InitSup /\ [][NextSup]_vars

InitFm ==
    /\ \E mode \in FileModes, exists \in BOOLEAN : FmStart(mode, exists)
    /\ PipeStart(<<>>)
    /\ AccStart
    /\ FibStart
    /\ FlatStart(<<>>)
    /\ CsvIdle
    /\ FileIdle
    /\ RangeIdle
    /\ RetryIdle
    /\ MemoStart
    /\ SingletonStart
    /\ ValidateIdle
    /\ TxnIdle
    /\ SupIdle
    /\ CdIdle
    /\ TaIdle
    /\ CntIdle

NextFm ==
    \/ FmEnter
    \/ FmBlockClose
    \/ \E exc \in BlockEnds : FmLeave(exc)

SpecFm == InitFm /\ [][NextFm]_vars

InitCd ==
    /\ \E wd \in Dirs : CdStart(wd)
    /\ PipeStart(<<>>)
    /\ AccStart
    /\ FibStart
    /\ FlatStart(<<>>)
    /\ CsvIdle
    /\ FileIdle
    /\ RangeIdle
    /\ RetryIdle
    /\ MemoStart
    /\ SingletonStart
    /\ ValidateIdle
    /\ TxnIdle
    /\ SupIdle
    /\ FmIdle
    /\ TaIdle
    /\ CntIdle

NextCd ==
    \/ \E path \in Paths : CdEnter(path)
    \/ \E d \in Dirs : CdBlockChdir(d)
    \/ \E exc \in BlockEnds : CdLeave(exc)

SpecCd == InitCd /\ [][NextCd]_vars

InitTa ==
    /\ \E c, i \in AttrValues \cup {Absent} : TaStart(c, i)
    /\ PipeStart(<<>>)
    /\ AccStart
    /\ FibStart
    /\ FlatStart(<<>>)
    /\ CsvIdle
    /\ FileIdle
    /\ RangeIdle
    /\ RetryIdle
    /\ MemoStart
    /\ SingletonStart
    /\ ValidateIdle
    /\ TxnIdle
    /\ SupIdle
    /\ FmIdle
    /\ CdIdle
    /\ CntIdle

NextTa ==
    \/ \E value \in AttrValues : TaEnter(value)
    \/ \E value \in AttrValues : TaBlockSet(value)
    \/ TaBlockDel
    \/ \E exc \in BlockEnds : TaLeave(exc)

SpecTa == InitTa /\ [][NextTa]_vars

\* a consumer that goes on pulling from one pipeline: the for loop of list()
InitTerminate ==
    /\ \E d \in BoundedSeqs(Vals, MaxLen) \cup {DemoData} :
           PipeStartOn(d, [i \in {1} |-> NewPipeline])
    /\ AccStart
    /\ FibStart
    /\ FlatStart(<<>>)
    /\ CsvIdle
    /\ FileIdle
    /\ RangeIdle
    /\ RetryIdle
    /\ MemoStart
    /\ SingletonStart
    /\ ValidateIdle
    /\ TxnIdle
    /\ SupIdle
    /\ FmIdle
    /\ CdIdle
    /\ TaIdle
    /\ CntIdle

NextTerminate == \E i \in DOMAIN pipes : Pull(i)

SpecTerminate ==
    InitTerminate /\ [][NextTerminate]_vars /\ WF_vars(NextTerminate)

InitResume ==
    /\ \E max_value \in (-1..MaxCount) \cup {DemoCount} : CntStart(max_value)
    /\ FibStart
    /\ PipeStart(<<>>)
    /\ AccStart
    /\ FlatStart(<<>>)
    /\ CsvIdle
    /\ FileIdle
    /\ RangeIdle
    /\ RetryIdle
    /\ MemoStart
    /\ SingletonStart
    /\ ValidateIdle
    /\ TxnIdle
    /\ SupIdle
    /\ FmIdle
    /\ CdIdle
    /\ TaIdle

NextResume ==
    \/ CntPull
    \/ CntLoop
    \/ \E i \in {1, 2} : FibPull(i)

SpecResume == InitResume /\ [][NextResume]_vars

----------------------------------------------------------------------------
(* Claims about the pipeline *)

\* C1: a pipeline that has been consumed to exhaustion has delivered exactly the
\* squares of the even elements of data, in data's order: the list the eager
\* comprehension [x ** 2 for x in data if x % 2 == 0] builds; for data = [1..10]
\* that is [4, 16, 36, 64, 100].
C1_PipelineEqualsComprehension ==
    \A i \in Inst :
        last[i] = "stop" =>
            /\ out[i] = SquaredEvens(data)
            /\ (data = DemoData => out[i] = <<4, 16, 36, 64, 100>>)

C1_Witness ==
    \E i \in Inst :
        /\ last[i] = "stop"
        /\ data = DemoData
        /\ out[i] = <<4, 16, 36, 64, 100>>

\* the index in d of its k-th even element
KthEvenIndex(d, k) ==
    CHOOSE j \in 1..Len(d) :
        /\ d[j] % 2 = 0
        /\ Cardinality({m \in 1..j : d[m] % 2 = 0}) = k

\* C2: before the first pull the source has read nothing (its body has not even
\* been entered), and when the consumer has just received its k-th value the
\* source stands exactly at the k-th even element of data.
C2_DemandDriven ==
    \A i \in Inst :
        /\ last[i] = "none" =>
               /\ Source(pipes[i]).pos = 0
               /\ Source(pipes[i]).state = "created"
        /\ last[i] = "value" =>
               Source(pipes[i]).pos = KthEvenIndex(data, Len(out[i]))

\* the consumer holds its second value and odd elements were skipped on the way,
\* with elements of data still unread
C2_Witness ==
    \E i \in Inst :
        /\ last[i] = "value"
        /\ Len(out[i]) = 2
        /\ Source(pipes[i]).pos > 2
        /\ Source(pipes[i]).pos < Len(data)

\* C3: a pipeline pulled with next() until StopIteration has delivered the same
\* list as list() of a fresh pipeline over the same data.
C3_IncrementalEqualsEager ==
    \A i, j \in Inst :
        (how[i] = "next" /\ last[i] = "stop" /\ how[j] = "list") => out[i] = out[j]

C3_Witness ==
    \E i, j \in Inst :
        /\ how[i] = "next" /\ last[i] = "stop" /\ how[j] = "list"
        /\ Len(out[i]) >= 2
        /\ out[i] = out[j]

----------------------------------------------------------------------------
(* Claims about the accumulator *)

RECURSIVE SumSeq(_)
SumSeq(q) == IF q = <<>> THEN 0 ELSE Head(q) + SumSeq(Tail(q))

\* C5: once the accumulator has been started with next(), every call returns
\* the sum of the values sent since, counted from zero: the first next()
\* returns 0 and the send of vn (and any next() after it) returns v1 + ... + vn.
C5_ReturnsRunningSum ==
    primed => (accLast.kind = "value" /\ accLast.val = SumSeq(sent))

\* demonstrate_send: next, then send 10, 20, 5, the last returning 35
C5_Witness ==
    /\ primed
    /\ sent = <<10, 20, 5>>
    /\ accLast.op = "send"
    /\ accLast.val = 35

\* C6: a send of a value before the first next() fails with TypeError and folds
\* nothing: the generator is still unstarted after it, and when it is started
\* afterwards its total is zero.
C6_RejectsAcceptBeforeProduce ==
    /\ (~primed /\ rejected > 0) =>
           (accLast.kind = "TypeError" /\ acc = Accumulator)
    /\ (primed /\ rejected > 0 /\ sent = <<>>) =>
           (accLast.kind = "value" /\ accLast.val = 0 /\ acc.total = 0)

\* a nonzero value was sent too early and rejected, then next() returned 0
C6_Witness ==
    /\ rejected > 0
    /\ primed
    /\ sent = <<>>
    /\ accLast.op = "next"
    /\ accLast.val = 0

\* C31: on a started accumulator a next(), which is a send of None, leaves
\* the running total as it is and returns it; so the next() calls that follow
\* one another all return the one total, the sum of the values sent so far,
\* until a value is sent.
C31_ProduceLeavesTotalUnchanged ==
    /\ [][(acc.state = "suspended" /\ produced' = produced + 1) =>
              /\ accLast'.op = "next"
              /\ accLast'.kind = "value"
              /\ accLast'.val = acc.total
              /\ acc'.state = "suspended"
              /\ acc'.total = acc.total]_vars
    /\ []((primed /\ accLast.op = "next") =>
              /\ accLast.val = SumSeq(sent)
              /\ acc.total = SumSeq(sent))

\* next, send 10, then next twice: both return 10
C31_Witness ==
    /\ sent = <<10>>
    /\ produced = 2
    /\ accLast.op = "next"
    /\ accLast.val = 10
    /\ acc.total = 10

----------------------------------------------------------------------------
(* Claims about fibonacci_generator *)

RECURSIVE FibNumber(_)
FibNumber(n) == IF n <= 1 THEN n ELSE FibNumber(n - 1) + FibNumber(n - 2)

\* C8: the values pulled from one fibonacci_generator instance are F(0), F(1),
\* ... whatever has been pulled, in any interleaving, from the other instances
\* (the instance under square included): no instance sees another's a and b.
C8_InstancesShareNoState ==
    /\ \A i \in {1, 2} : \A k \in 1..Len(fibOut[i]) :
           fibOut[i][k] = FibNumber(k - 1)
    /\ \A k \in 1..Len(fibOut[3]) :
           fibOut[3][k] = FibNumber(k - 1) * FibNumber(k - 1)

\* one instance is five values in after the other was pulled twice
C8_Witness ==
    /\ fibOut[1] = <<0, 1, 1, 2, 3>>
    /\ fibOut[2] = <<0, 1>>
    /\ Len(fibOut[3]) = 3

\* C10: fibonacci_generator, alone or under square, is never exhausted: no
\* pull has ended in StopIteration, no generator has finished, and the next
\* pull returns a value too.
C10_NeverExhausted ==
    \A i \in FibInst :
        /\ fibLast[i] # "stop"
        /\ fibs[i].state # "finished"
        /\ IterNext(fibs[i]).kind = "value"

C10_Witness ==
    /\ Len(fibOut[1]) >= 5
    /\ fibLast[1] = "value"
    /\ Len(fibOut[3]) >= 5
    /\ fibLast[3] = "value"

----------------------------------------------------------------------------
(* Claims about flatten *)

\* the leaves of a nested list, depth first and left to right
RECURSIVE Leaves(_)
Leaves(items) ==
    IF items = <<>> THEN <<>>
    ELSE (IF Head(items).list THEN Leaves(Head(items).items)
          ELSE <<Head(items).val>>) \o Leaves(Tail(items))

\* C7: what flatten has yielded is always a prefix of the list's leaves in
\* depth-first left-to-right order, and all of them, each once, when it is
\* exhausted (empty sub-lists give nothing);
\* [1, [2, 3, [4, 5]], 6, [7, [8, 9]]] gives [1, ..., 9].
C7_FlattenYieldsLeavesInOrder ==
    /\ Len(flatOut) <= Len(Leaves(nested))
    /\ flatOut = SubSeq(Leaves(nested), 1, Len(flatOut))
    /\ flatLast = "stop" => flatOut = Leaves(nested)
    /\ (flatLast = "stop" /\ nested = DemoNested) =>
           flatOut = <<1, 2, 3, 4, 5, 6, 7, 8, 9>>

C7_Witness ==
    /\ flatLast = "stop"
    /\ nested = DemoNested
    /\ flatOut = <<1, 2, 3, 4, 5, 6, 7, 8, 9>>

----------------------------------------------------------------------------
(* Claims about exhaustion *)

\* a pull on the iterator would raise StopIteration
Exhausted(it) == IterNext(it).kind = "stop"

\* the source of a pipeline has raised StopIteration (a Range keeps no record
\* of it: exhaustion is all that can be seen of it)
HasSignalled(src) ==
    CASE src.kind = "read_numbers" -> src.state = "finished"
      [] src.kind = "list_iterator" -> src.exhausted
      [] src.kind = "Range" -> FALSE

C4_PassedOn ==
    /\ \A i \in DOMAIN pipes :
           /\ Exhausted(pipes[i].up.up) =>
                  (Exhausted(pipes[i].up) /\ Exhausted(pipes[i]))
           /\ HasSignalled(pipes[i].up.up) =>
                  /\ last[i] = "stop"
                  /\ pipes[i].up.state = "finished"
                  /\ pipes[i].state = "finished"
    /\ csv # NoCsv =>
           /\ Exhausted(csv.lines) => Exhausted(csv)
           /\ HasSignalled(csv.lines) =>
                  (csvLast = "stop" /\ csv.state = "finished")

C4_NothingAfter ==
    /\ \A i \in DOMAIN pipes :
           Exhausted(pipes[i].up.up) =>
               (out'[i] = out[i] /\ last'[i] \in {last[i], "stop"})
    /\ (csv # NoCsv /\ Exhausted(csv.lines)) =>
           (csvOut' = csvOut /\ csvLast' \in {csvLast, "stop"})

\* C4: once the finite source under a stage is exhausted (read_numbers, a
\* Range, the list iterator under process_csv_lazily), a pull on filter_even,
\* on square and on process_csv_lazily ends in StopIteration; a source that
\* has raised StopIteration did so in a pull that ended in StopIteration at the
\* consumer; and from then on the consumer receives no further value.
C4_ExhaustionPropagates == [](C4_PassedOn) /\ [][C4_NothingAfter]_vars

\* a pipeline over a Range was pulled, value by value, into StopIteration
C4_Witness ==
    \E i \in DOMAIN pipes :
        /\ pipes[i].up.up.kind = "Range"
        /\ how[i] = "next"
        /\ last[i] = "stop"
        /\ Len(out[i]) >= 2
        /\ pipes[i].state = "finished"

----------------------------------------------------------------------------
(* Claims about read_large_file_lines *)

\* C11: the file of read_large_file_lines is not opened before the first pull,
\* and it is never open once the generator has finished: not after the pull
\* that ended in StopIteration, not after close(), not after an exception was
\* thrown into the generator or came out of it.
C11_FileReleasedOnEveryExit ==
    /\ reader.state = "created" => reader.file = "unopened"
    /\ reader.state = "finished" => reader.file # "open"
    /\ readLast \notin {"none", "value"} =>
           (reader.state = "finished" /\ reader.file # "open")

\* the consumer stopped early: a line was pulled, lines were left, the
\* generator was closed and the file with it
C11_Witness ==
    /\ readLast = "closed"
    /\ Len(readOut) = 1
    /\ Len(FileLines(disk.text)) > 1
    /\ reader.file = "closed"

----------------------------------------------------------------------------
(* Claims about process_csv_lazily *)

\* the field names: the first line, split on ','
HeaderNames == SplitComma(lines[1])

DistinctNames(h) == \A i, j \in 1..Len(h) : h[i] = h[j] => i = j

\* the first line is consumed as the header and nothing is yielded for it;
\* after it there is one mapping per line consumed, in input order
OnePerDataLine ==
    /\ Len(csvOut) = (IF csv.lines.pos = 0 THEN 0 ELSE csv.lines.pos - 1)
    /\ csvLast = "value" => csv.lines.pos = Len(csvOut) + 1
    /\ csvLast = "stop" => csv.lines.pos = Len(lines)

\* the k-th mapping gives the i-th field name the i-th value of the k-th data line
Positional(k) ==
    LET values == SplitComma(lines[k + 1]) IN
    /\ DOMAIN csvOut[k] = {HeaderNames[i] : i \in 1..Len(HeaderNames)}
    /\ \A i \in 1..Len(HeaderNames) : csvOut[k][HeaderNames[i]] = values[i]

\* C12 as claimed: the first line is the header, split on ',', and yields
\* nothing; each later line yields one mapping, in input order, in which the
\* i-th field name maps to the i-th comma-separated value of the line, for
\* every line with the header's field count.
C12_AsClaimed ==
    /\ OnePerDataLine
    /\ \A k \in 1..Len(csvOut) :
           Len(SplitComma(lines[k + 1])) = Len(HeaderNames) => Positional(k)

\* C12 as amended: the same, for headers whose field names are distinct (a
\* name that occurs twice maps to the value under its last occurrence).
C12_PositionalForDistinctNames ==
    /\ OnePerDataLine
    /\ \A k \in 1..Len(csvOut) :
           (/\ Len(SplitComma(lines[k + 1])) = Len(HeaderNames)
            /\ DistinctNames(HeaderNames)) => Positional(k)

\* demonstrate_file_processing: the three records have been yielded
C12_Witness ==
    /\ lines = DemoCsv
    /\ Len(csvOut) = 3
    /\ DistinctNames(HeaderNames)
    /\ csvOut[1][<<"n", "a", "m", "e">>] = <<"A", "l", "i", "c", "e">>
    /\ csvOut[3][<<"c", "i", "t", "y">>] = <<"C", "h", "i", "c", "a", "g", "o">>

\* C28: on an empty input (no header line) process_csv_lazily yields nothing
\* and finishes normally: the StopIteration met while reading the header
\* becomes plain exhaustion of the output, not an error; an input with only a
\* header line likewise yields no mapping.
C28_EmptyInputYieldsNothing ==
    Len(lines) <= 1 =>
        /\ csvOut = <<>>
        /\ csvLast \in {"none", "stop"}
        /\ csvLast = "stop" => csv.state = "finished" /\ csv.lines.pos = Len(lines)

\* process_csv_lazily(iter([])) pulled once: StopIteration, nothing yielded
C28_Witness ==
    /\ lines = <<>>
    /\ csv.state = "finished"
    /\ csvLast = "stop"
    /\ csvOut = <<>>

\* the first n field names of the header
LeadingNames(n) == {HeaderNames[i] : i \in 1..n}

\* C30: a data line whose field count differs from the header's does not make
\* process_csv_lazily fail: it yields a mapping as every line does, whose
\* keys are, for a line with fewer values, the leading field names that have
\* a value and, for a line with more values, exactly the header's field
\* names; each key maps to the value at the place of its (last) occurrence
\* among those names, so no surplus value is kept.
C30_ToleratesFieldCountMismatch ==
    /\ csvLast \in {"none", "value", "stop"}
    /\ Len(lines) >= 1 => Len(csvOut) = (IF csv.state = "created" THEN 0
                                         ELSE csv.lines.pos - 1)
    /\ \A k \in 1..Len(csvOut) :
           LET values == SplitComma(lines[k + 1])
               n == Len(values)
           IN  /\ n < Len(HeaderNames) =>
                      /\ DOMAIN csvOut[k] = LeadingNames(n)
                      /\ \A i \in 1..n :
                             \E j \in i..n : /\ HeaderNames[j] = HeaderNames[i]
                                             /\ csvOut[k][HeaderNames[i]] = values[j]
               /\ n > Len(HeaderNames) =>
                      /\ DOMAIN csvOut[k] = LeadingNames(Len(HeaderNames))
                      /\ \A i \in 1..Len(HeaderNames) :
                             \E j \in i..Len(HeaderNames) :
                                 /\ HeaderNames[j] = HeaderNames[i]
                                 /\ csvOut[k][HeaderNames[i]] = values[j]

\* header "a," (field names "a" and ""), data line "a": one mapping, with
\* the one key "a"
C30_Witness ==
    /\ lines = <<<<"a", ",">>, <<"a">>>>
    /\ Len(csvOut) = 1
    /\ DOMAIN csvOut[1] = {<<"a">>}
    /\ csvOut[1][<<"a">>] = <<"a">>

----------------------------------------------------------------------------
(* Claims about abandoning a pipeline *)

\* a is a prefix of b
IsPrefix(a, b) == Len(a) <= Len(b) /\ a = SubSeq(b, 1, Len(a))

\* a pipeline built after others were dropped starts from the beginning of
\* data and, drained, gives the complete result
C13_FreshAfterAbandon ==
    \A i \in DOMAIN pipes :
        abandoned # <<>> =>
            /\ IsPrefix(out[i], SquaredEvens(data))
            /\ last[i] = "none" => Source(pipes[i]).pos = 0
            /\ last[i] = "stop" => out[i] = SquaredEvens(data)

\* C13: abandoning a partially drained pipeline is safe: no step of a
\* pipeline, and no dropping of one, changes the list data, and a pipeline
\* built over the same data after any number of results were pulled from the
\* dropped one yields the complete result from the beginning.
C13_AbandonIsSafe == [](C13_FreshAfterAbandon) /\ [][data' = data]_vars

\* a pipeline was dropped after two of five results, and the one built after
\* it was consumed to exhaustion
C13_Witness ==
    /\ data = DemoData
    /\ Len(abandoned) = 1
    /\ abandoned[1].got = <<4, 16>>
    /\ abandoned[1].last = "value"
    /\ last[1] = "stop"
    /\ out[1] = <<4, 16, 36, 64, 100>>

----------------------------------------------------------------------------
(* Claims about Range *)

\* the values of Python's range(start, stop, step); range() raises ValueError
\* for step 0 and so gives no value at all
BuiltinRange(start, stop, step) ==
    LET n == IF step > 0 /\ stop > start
                 THEN (stop - start + step - 1) \div step
             ELSE IF step < 0 /\ start > stop
                 THEN (start - stop - step - 1) \div (0 - step)
             ELSE 0
    IN  [k \in 1..n |-> start + (k - 1) * step]

\* what has been pulled from rng is what range() gives, as far as it goes, and
\* rng is exhausted exactly where range() is
SameAsBuiltin ==
    LET ref == BuiltinRange(rng.start, rng.stop, rng.step) IN
    /\ IsPrefix(rngOut, ref)
    /\ rngLast = "stop" => rngOut = ref

\* C14: for all integers start, stop and step, Range(start, stop, step) gives
\* the values of range(start, stop, step) and is exhausted where it is, and
\* Range(n) those of range(n).
C14_MimicsBuiltinRange == SameAsBuiltin

\* the same for the steps range() accepts: every step but 0
C14_MimicsBuiltinRangeForNonzeroStep == rng.step # 0 => SameAsBuiltin

----------------------------------------------------------------------------
(* Claims about retry *)

\* the invocations of the wrapped function that return normally
Successes == {k \in 1..maxAttempts : script[k].kind = "return"}

----------------------------------------------------------------------------
(* Claims about memoize *)

\* C17: whatever calls were made before and whatever the cache holds, the
\* memoized fibonacci(n) returns the n-th Fibonacci number, the value of the
\* undecorated recursive function; the cache holds nothing else.
C17_MemoizeIsTransparent ==
    /\ \A k \in 1..Len(memoCalls) : memoCalls[k].val = FibNumber(memoCalls[k].n)
    /\ \A n \in DOMAIN cache : cache[n] = FibNumber(n)

\* fibonacci(6) answered with 8 after smaller calls had filled part of the
\* cache, then asked again and answered from the cache
C17_Witness ==
    /\ Len(memoCalls) = 3
    /\ memoCalls[1].n = 3
    /\ memoCalls[2] = [n |-> 6, val |-> 8, cached |-> FALSE]
    /\ memoCalls[3] = [n |-> 6, val |-> 8, cached |-> TRUE]

\* C18: over any sequence of calls the body of fibonacci has run at most once
\* for each argument, the recursive inner calls included: exactly once for the
\* arguments in the cache and never for the others.
C18_BodyRunsOncePerArgument ==
    \A n \in FibArgs :
        /\ bodyRuns[n] <= 1
        /\ bodyRuns[n] = 1 <=> n \in DOMAIN cache

\* fibonacci(5) then fibonacci(5) again and fibonacci(4): the body ran once
\* for each of 0..5 and the two later calls ran nothing
C18_Witness ==
    /\ Len(memoCalls) = 3
    /\ memoCalls[1].n = 5
    /\ memoCalls[2].n = 5 /\ memoCalls[2].cached
    /\ memoCalls[3].n = 4 /\ memoCalls[3].cached
    /\ \A n \in 0..5 : bodyRuns[n] = 1

----------------------------------------------------------------------------
(* Claims about singleton *)

\* C19: over any sequence of calls of DatabaseConnection with any host and
\* port, the constructor has run exactly once, on the first call and with its
\* arguments; every call has returned that one object, and the arguments of
\* the later calls have changed nothing of it.
C19_OneInstance ==
    /\ Len(heap) <= 1
    /\ dbCalls # <<>> =>
           /\ Len(heap) = 1
           /\ heap[1].host = DatabaseConnectionInit(dbCalls[1].args).host
           /\ heap[1].port = DatabaseConnectionInit(dbCalls[1].args).port
           /\ \A k \in 1..Len(dbCalls) : dbCalls[k].ref = dbCalls[1].ref

\* main: DatabaseConnection("localhost", 5432), then
\* DatabaseConnection("otherhost", 3306) returns the same object, localhost:5432,
\* which connect() then marks connected
C19_Witness ==
    /\ Len(dbCalls) = 2
    /\ dbCalls[1].args = <<"localhost", 5432>>
    /\ dbCalls[2].args = <<"otherhost", 3306>>
    /\ dbCalls[2].ref = dbCalls[1].ref
    /\ heap[dbCalls[2].ref] = [host |-> "localhost", port |-> 5432,
                               connected |-> TRUE]

----------------------------------------------------------------------------
(* Claims about validate_types *)

\* the places in expected_types whose name is a parameter bound to a value
\* that is not an instance of the expected type
Offending ==
    LET arguments == [x |-> callArgs[1], y |-> callArgs[2]] IN
    {i \in 1..Len(expectedTypes) :
         /\ expectedTypes[i].name \in DOMAIN arguments
         /\ ~IsInstance(arguments[expectedTypes[i].name], expectedTypes[i].type)}

\* C20: the function is invoked only if every bound argument named in
\* expected_types is an instance of its expected type; otherwise the wrapper
\* raises TypeError for the first offending name (in the order of
\* expected_types) and the function is not invoked; when all checks pass the
\* wrapper gives the function's result.
C20_ValidatesBeforeInvoking ==
    validated.kind # "none" =>
        /\ validated.invoked => Offending = {}
        /\ Offending # {} =>
               /\ validated.kind = "TypeError"
               /\ validated.by = "wrapper"
               /\ ~validated.invoked
               /\ \E i \in Offending :
                      /\ \A j \in Offending : i <= j
                      /\ validated.param = expectedTypes[i].name
        /\ Offending = {} =>
               /\ validated.invoked
               /\ validated.by = "func"
               /\ validated.kind = AddNumbers(callArgs[1], callArgs[2]).kind
               /\ validated.val = AddNumbers(callArgs[1], callArgs[2]).val

\* main: add_numbers("5", 10) under @validate_types(x=int, y=int) raises
\* TypeError for x without adding anything
C20_Witness ==
    /\ expectedTypes = <<[name |-> "x", type |-> "int"], [name |-> "y", type |-> "int"]>>
    /\ callArgs = <<StrValue(<<"5">>), IntValue(10)>>
    /\ validated.kind = "TypeError"
    /\ validated.param = "x"
    /\ ~validated.invoked

----------------------------------------------------------------------------
(* Claims about TransactionManager *)

\* C21: when the with block exits without an exception, changes holds every
\* change passed to add_change in the block, in call order; when it exits
\* with an exception, changes is empty afterwards; in both cases the
\* exception (if any) leaves the with statement: it is not suppressed.
C21_CommitsOrRollsBack ==
    txBlock.at = "after" =>
        /\ txBlock.exc = "None" => txn.changes = txBlock.added
        /\ txBlock.exc # "None" => txn.changes = <<>>
        /\ txBlock.propagated = txBlock.exc

\* a block that added two changes and then raised RuntimeError (main, with
\* its raise in place): rolled back, and RuntimeError reaches the caller
C21_Witness ==
    /\ txBlock.at = "after"
    /\ txBlock.added = <<"Updated username", "Updated email">>
    /\ txBlock.exc = "RuntimeError"
    /\ txn.changes = <<>>
    /\ txBlock.propagated = "RuntimeError"

----------------------------------------------------------------------------
(* Claims about SuppressExceptions *)

\* class c is class t or derives from it, directly or through its bases
RECURSIVE IsOrDerivesFrom(_, _)
IsOrDerivesFrom(c, t) ==
    \/ c = t
    \/ Bases[c] # "object" /\ IsOrDerivesFrom(Bases[c], t)

\* the exception that ended the block is of a configured type
OfConfiguredType ==
    \E i \in 1..Len(sup.exceptions) :
        IsOrDerivesFrom(supBlock.exc, sup.exceptions[i])

\* C22: an exception leaving the block is suppressed if and only if its type
\* is one of the configured types or a subclass of one; every other exception
\* propagates to the caller, and a block that raises nothing is unaffected.
C22_SuppressesConfiguredTypes ==
    supBlock.at = "after" =>
        IF supBlock.exc = "None"
            THEN supBlock.propagated = "None"
            ELSE /\ supBlock.propagated = "None" <=> OfConfiguredType
                 /\ ~OfConfiguredType => supBlock.propagated = supBlock.exc

\* SuppressExceptions(ValueError, TypeError) suppresses UnicodeError, a
\* subclass of ValueError
C22_Witness ==
    /\ sup.exceptions = <<"ValueError", "TypeError">>
    /\ supBlock.at = "after"
    /\ supBlock.exc = "UnicodeError"
    /\ supBlock.propagated = "None"

----------------------------------------------------------------------------
(* Claims about FileManager *)

\* C23: FileManager opens the file on entering the with block and closes it
\* on exit, whether the block ends normally or by an exception; no file
\* object is open after the block, and an exception raised in the block
\* always leaves the with statement (it is never suppressed).
C23_FileClosedAfterBlock ==
    /\ fmBlock.at = "inside" =>
           /\ fm.file \in DOMAIN handles
           /\ handles[fm.file].name = fm.filename
           /\ handles[fm.file].mode = fm.mode
           /\ ~fmBlock.closed => ~handles[fm.file].closed
    /\ fmBlock.at # "inside" =>
           \A h \in DOMAIN handles : handles[h].closed
    /\ fmBlock.at = "after" => fmBlock.propagated = fmBlock.exc

\* a block that left the file open and raised ValueError: the file is closed
\* and ValueError reaches the caller
C23_Witness ==
    /\ fmBlock.at = "after"
    /\ ~fmBlock.closed
    /\ fmBlock.exc = "ValueError"
    /\ handles[fm.file].closed
    /\ fmBlock.propagated = "ValueError"

----------------------------------------------------------------------------
(* Claims about change_directory *)

\* C24: inside the block the working directory is path (until the block
\* itself changes it), and after the block, whether it ended normally or by an
\* exception or the change to path itself failed, the working directory is
\* the one in effect when the with statement was entered; nested uses restore
\* in reverse order of entry: each one to the directory of its own entry.
C24_RestoresWorkingDirectory ==
    /\ (cdStack # <<>> /\ cdLast.kind = "none"
            /\ ~cdStack[Len(cdStack)].moved) =>
           cwd = cdStack[Len(cdStack)].gen.path
    /\ cdLast.kind \in {"after", "not entered"} => cwd = cdLast.entry
    /\ cdLast.kind = "after" => cdLast.propagated = cdLast.exc

\* change_directory("/tmp") entered from /home inside change_directory("/home")
\* entered from /: the inner block, which raised, is left in /home while the
\* outer block is still to restore /
C24_Witness ==
    /\ Len(cdStack) = 1
    /\ cdStack[1].entry = "/"
    /\ cdStack[1].gen.path = "/home"
    /\ cdLast.kind = "after"
    /\ cdLast.path = "/tmp"
    /\ cdLast.exc = "RuntimeError"
    /\ cdLast.entry = "/home"
    /\ cwd = "/home"

----------------------------------------------------------------------------
(* Claims about temporary_attribute *)

\* C25: inside the block (until the block itself touches it) attr reads as
\* value; after the block, ended normally or by an exception: if attr was
\* readable on obj before entry, reading it gives the value it had then, and
\* if it was not, obj has no attr.
C25_AttributeUndoneOnExit ==
    /\ (taStack # <<>> /\ taLast.kind = "none"
            /\ ~taStack[Len(taStack)].touched) =>
           /\ HasAttr(obj)
           /\ GetAttr(obj) = taStack[Len(taStack)].gen.value
    /\ taLast.kind = "after" =>
           IF taLast.before # Absent
               THEN HasAttr(obj) /\ GetAttr(obj) = taLast.before
               ELSE ~HasAttr(obj)

\* an object with no such attribute, of its own or of its class: the block
\* raised, and the attribute is gone again
C25_Witness ==
    /\ taLast.kind = "after"
    /\ taLast.before = Absent
    /\ taLast.exc = "ValueError"
    /\ taLast.propagated = "ValueError"
    /\ taStack = <<>>
    /\ obj = [cls |-> Absent, inst |-> Absent]

----------------------------------------------------------------------------
(* Claims about termination *)

\* C26: for every finite list data, a consumer that keeps pulling from
\* square(filter_even(read_numbers(data))) reaches StopIteration, after at
\* most one pull for each element and one more, and read_numbers has by then
\* read each element of data once: it has gone through all of data and
\* handed on one element at each place.
C26_DrainTerminates ==
    /\ <>(last[1] = "stop")
    /\ [](last[1] = "stop" =>
              /\ Source(pipes[1]).pos = Len(data)
              /\ Source(pipes[1]).state = "finished"
              /\ Len(out[1]) + 1 <= Len(data) + 1)
    /\ [][Source(pipes[1])'.pos >= Source(pipes[1]).pos]_vars

\* demonstrate_pipeline pulled to its end: ten elements read, five results
C26_Witness ==
    /\ data = DemoData
    /\ last[1] = "stop"
    /\ out[1] = <<4, 16, 36, 64, 100>>
    /\ Source(pipes[1]).pos = 10

----------------------------------------------------------------------------
(* Claims about resuming a generator *)

\* the integers from lo to hi in order; none when hi < lo
FromTo(lo, hi) == [k \in 1..(hi - lo + 1) |-> lo + k - 1]

\* C27: after j next() calls on count_up_to(m), which give 1..j (1..m when
\* j >= m), iterating the same instance gives exactly j+1..m, nothing when
\* j >= m; and whatever number of values has been pulled from a
\* fibonacci_generator(), the next pull gives the Fibonacci number that
\* follows them: no value is repeated or skipped.
C27_ResumesWhereItLeftOff ==
    /\ cntOut = FromTo(1, IF cntPulls <= counter.max_value THEN cntPulls
                          ELSE counter.max_value)
    /\ cntLooped => cntRest = FromTo(cntPulls + 1, counter.max_value)
    /\ \A i \in {1, 2} : \A k \in 1..Len(fibOut[i]) :
           fibOut[i][k] = FibNumber(k - 1)

\* demonstrate_basic_generator: two values pulled from count_up_to(5), the
\* for loop gives 3, 4, 5
C27_Witness ==
    /\ counter.max_value = 5
    /\ cntOut = <<1, 2>>
    /\ cntLooped
    /\ cntRest = <<3, 4, 5>>

----------------------------------------------------------------------------
(* Claims about an exhausted Range *)

\* C29: once __next__ has raised StopIteration, every later __next__ on the
\* same object raises it again and leaves current unchanged, and another
\* iteration over the object, whose __iter__ gives the object itself, yields
\* no value: nothing is added to what the object has given.
C29_ExhaustionIsPermanent ==
    /\ [](rngStops >= 1 => rngLast = "stop")
    /\ [](RangeIter(rng) = rng)
    /\ [][rngLast = "stop" =>
              /\ rngLast' = "stop"
              /\ rng'.current = rng.current
              /\ rngOut' = rngOut]_vars

\* Range(5), exhausted and then iterated again: 0..4 and nothing more
C29_Witness ==
    /\ rng.start = 0 /\ rng.stop = 5 /\ rng.step = 1
    /\ rngStops = 2
    /\ rngLast = "stop"
    /\ rngOut = <<0, 1, 2, 3, 4>>

====
